---------------------------- MODULE Spec2Model ----------------------------
(***************************************************************************)
(* Product identity and price engine of grocerysaver: the scan endpoint    *)
(* (ProductScanView.post), its serializer and the catalog tables it reads  *)
(* and writes, with the admin batch entry of product codes.                *)
(*                                                                         *)
(* Every ORM statement is one database round trip and, Django running in   *)
(* autocommit and the view opening no transaction, one transaction of its  *)
(* own: a request is a sequence of steps, one per statement, and the       *)
(* requests of different workers interleave between the steps.             *)
(*                                                                         *)
(* A request field is drawn at the statement that first reads it           *)
(* (data.get(...)), which yields the same behaviours as drawing the whole  *)
(* request on arrival: the fields are independent inputs and the           *)
(* serializer only checks the presence of store_id and price together.     *)
(* The fields have passed the serializer's field-level validation: a code  *)
(* and a name are trimmed and non-empty, ids are integers, a price is a    *)
(* positive amount (in cents here).                                        *)
(***************************************************************************)
EXTENDS Integers, FiniteSets, Sequences, TLC

VARIABLES
    products,   \* Product rows
    codes,      \* ProductCode rows
    prices,     \* ProductPrice rows
    th,         \* per worker: the scan request in progress
    adm,        \* the admin's batch submission of product codes in progress
    started,    \* requests accepted so far
    ean,        \* build_ean13_code: the call in progress
    fs,         \* the admin formset's clean: the call in progress
    cmp,        \* compare_prices: the call in progress
    ofr,        \* list_offers: the offers, the clock and the call in progress
    dsc,        \* discount_percent: the offer and the values rendered for it
    bst,        \* best price: the scan in progress and the answers read since the last write
    adr         \* addresses: the Address rows and each user's request in progress

db == <<products, codes, prices>>
\* The operations each modelled under a specification of its own
others == <<dsc, bst, adr>>
calls == <<ean, fs, cmp, ofr, others>>
vars == <<products, codes, prices, th, adm, started, calls>>

(***************************************************************************)
(* Bounds and input domains                                                *)
(***************************************************************************)
MaxRequests == 2

\* An optional value is a tuple: <<>> is Python's None or a key that is not in
\* the validated data, <<v>> is the value v.
None == <<>>
Some(v) == <<v>>
Val(o) == o[1]

Threads == {"r1", "r2"}
Codes == {"c1", "c2"}
CodeTypeInputs == {None, Some("qr")}
categories == {1}                       \* Category rows (static here)
stores == {1}                           \* Store rows (static here)
CategoryInputs == {None, Some(1), Some(9)}     \* 9: no such category
StoreInputs == {None, Some(1), Some(9)}        \* 9: no such store
PriceInputs == {None, Some(105)}
NameInputs == {None, Some("n1")}
BrandInputs == {None, Some("b")}
DescriptionInputs == {Some("d")}       \* the serializer defaults it to ''

BARCODE == "barcode"

(***************************************************************************)
(* Tables                                                                  *)
(***************************************************************************)
\* AutoField primary key: rows are never deleted by the modelled operations.
NextId(rows) == Cardinality(rows) + 1

\* dict.get(key, default)
Get(value, default) == IF value = None THEN default ELSE Val(value)

\* value or default
OrElse(value, default) ==
    IF value = None \/ value = Some("") THEN default ELSE Val(value)

FirstById(rows) == CHOOSE r \in rows : \A q \in rows : r.id <= q.id

\* The tables without their unique constraints: every INSERT is accepted.
ProductConstraintDropped(rows, new) == FALSE
PriceConstraintDropped(rows, new) == FALSE
CodeConstraintDropped(rows, new) == FALSE

\* UniqueConstraint(fields=['category', 'name', 'brand'])
ProductConstraintViolated(rows, new) ==
    \E p \in rows : /\ p.category = new.category
                    /\ p.name = new.name
                    /\ p.brand = new.brand

\* UniqueConstraint(fields=['product', 'store'])
PriceConstraintViolated(rows, new) ==
    \E p \in rows : p.product = new.product /\ p.store = new.store

\* ProductCode.code is unique across all codes, case-exact
CodeConstraintViolated(rows, new) ==
    \E c \in rows : c.code = new.code

(***************************************************************************)
(* ProductScanSerializer                                                   *)
(***************************************************************************)
\* A validate that refuses store_id without price only.
validate_StoreOnly(attrs) ==
    IF attrs.store_id # None /\ attrs.price = None
    THEN Some("PricePairIncomplete") ELSE None

validate(attrs) ==
    LET has_store == attrs.store_id # None
        has_price == attrs.price # None
    IN IF has_store # has_price THEN Some("PricePairIncomplete") ELSE None

(***************************************************************************)
(* Responses                                                               *)
(***************************************************************************)
HTTP_200_OK == 200
HTTP_201_CREATED == 201
HTTP_400_BAD_REQUEST == 400
HTTP_404_NOT_FOUND == 404
HTTP_500_INTERNAL_SERVER_ERROR == 500

ErrorResponse(status, detail) ==
    [status |-> status, detail |-> detail, body |-> None]

\* The worker between requests, and the locals of post() at its start.
Idle ==
    [pc |-> "idle", code |-> "", store_id |-> None, price |-> None,
     args |-> None, code_row |-> None, product |-> None,
     product_created |-> FALSE, code_created |-> FALSE, price_updated |-> FALSE,
     resp |-> None,
     \* history of the request, read by the properties only
     hit |-> FALSE, looked |-> FALSE, retried |-> FALSE, wrote |-> {},
     sent_type |-> None]

Fail(req, status, detail) ==
    [req EXCEPT !.pc = "done", !.resp = Some(ErrorResponse(status, detail))]

(***************************************************************************)
(* ProductScanView.post                                                    *)
(***************************************************************************)
\* serializer.is_valid(raise_exception=True); data = serializer.validated_data
ScanValidate(t) ==
    /\ th[t].pc \in {"idle", "done"}
    /\ started < MaxRequests
    /\ started' = started + 1
    /\ \E code \in Codes, store_id \in StoreInputs, price \in PriceInputs :
         LET attrs == [code |-> code, store_id |-> store_id, price |-> price]
             error == validate(attrs)
             req == [Idle EXCEPT !.code = code, !.store_id = store_id,
                                 !.price = price]
         IN th' = [th EXCEPT ![t] =
                IF error # None
                THEN [req EXCEPT !.pc = "done",
                        !.resp = Some(ErrorResponse(HTTP_400_BAD_REQUEST, Val(error)))]
                ELSE [req EXCEPT !.pc = "lookup"]]
    /\ UNCHANGED <<db, adm, calls>>

\* A lookup that, on a hit, writes a code_type onto the row it found.
ScanLookup_Retypes(t) ==
    /\ th[t].pc = "lookup"
    /\ LET rows == {r \in codes : r.code = th[t].code}
       IN /\ th' = [th EXCEPT ![t] =
               IF rows = {}
               THEN [th[t] EXCEPT !.pc = "product_get", !.looked = TRUE]
               ELSE [th[t] EXCEPT !.pc = "price", !.looked = TRUE, !.hit = TRUE,
                       !.code_row = Some(FirstById(rows).id),
                       !.product = Some(FirstById(rows).product),
                       !.product_created = FALSE, !.code_created = FALSE]]
          /\ codes' = IF rows = {} THEN codes
                      ELSE (codes \ {FirstById(rows)})
                             \cup {[FirstById(rows) EXCEPT !.code_type = "qr"]}
    /\ UNCHANGED <<products, prices, adm, started, calls>>

\* code_row = ProductCode.objects...filter(code=code).first(), and the else
\* branch of "if code_row is None"
ScanLookup(t) ==
    /\ th[t].pc = "lookup"
    /\ LET rows == {r \in codes : r.code = th[t].code}
       IN th' = [th EXCEPT ![t] =
            IF rows = {}
            THEN [th[t] EXCEPT !.pc = "product_get", !.looked = TRUE]
            ELSE [th[t] EXCEPT !.pc = "price", !.looked = TRUE, !.hit = TRUE,
                    !.code_row = Some(FirstById(rows).id),
                    !.product = Some(FirstById(rows).product),
                    !.product_created = FALSE, !.code_created = FALSE]]
    /\ UNCHANGED <<db, adm, started, calls>>

\* A check that asks for category_id only.
MissingCategoryOnly(category_id, name) ==
    category_id = None \/ Val(category_id) = 0

\* "not category_id or not name", for name = data.get('name', '').strip()
MissingCreationData(category_id, name) ==
    \/ category_id = None \/ Val(category_id) = 0
    \/ name = ""

\* The rows Product.objects.get(category=..., name=..., brand=...) selects
ProductRows(args) ==
    {p \in products : /\ p.category = Val(args.category_id)
                      /\ p.name = args.name
                      /\ p.brand = args.brand}

\* A lookup of the triple that writes the description sent onto the product
\* it finds.
ScanProductGet_Overwrites(t) ==
    /\ th[t].pc = "product_get"
    /\ \E category_id \in CategoryInputs, name \in NameInputs,
          brand \in BrandInputs, description \in DescriptionInputs :
         LET args == [category_id |-> category_id, name |-> Get(name, ""),
                      brand |-> Get(brand, ""),
                      description |-> Get(description, "")]
             req == [th[t] EXCEPT !.args = Some(args)]
             found == ~MissingCreationData(category_id, args.name)
                      /\ Val(category_id) \in categories
                      /\ ProductRows(args) # {}
         IN /\ th' = [th EXCEPT ![t] =
                 IF MissingCreationData(category_id, args.name)
                 THEN Fail(req, HTTP_404_NOT_FOUND, "InsufficientDataForCreation")
                 ELSE IF Val(category_id) \notin categories
                 THEN Fail(req, HTTP_400_BAD_REQUEST, "CategoryNotFound")
                 ELSE IF ProductRows(args) # {}
                 THEN [req EXCEPT !.pc = "code_create",
                          !.product = Some(FirstById(ProductRows(args)).id),
                          !.product_created = FALSE]
                 ELSE [req EXCEPT !.pc = "product_create"]]
            /\ products' =
                 IF found
                 THEN {IF q = FirstById(ProductRows(args))
                       THEN [q EXCEPT !.description = args.description] ELSE q
                       : q \in products}
                 ELSE products
    /\ UNCHANGED <<codes, prices, adm, started, calls>>

\* The checks of category_id and name, the category lookup, and the SELECT of
\* Product.objects.get_or_create
ScanProductGet(t) ==
    /\ th[t].pc = "product_get"
    /\ \E category_id \in CategoryInputs, name \in NameInputs,
          brand \in BrandInputs, description \in DescriptionInputs :
         LET args == [category_id |-> category_id, name |-> Get(name, ""),
                      brand |-> Get(brand, ""),
                      description |-> Get(description, "")]
             req == [th[t] EXCEPT !.args = Some(args)]
         IN th' = [th EXCEPT ![t] =
              IF MissingCreationData(category_id, args.name)
              THEN Fail(req, HTTP_404_NOT_FOUND, "InsufficientDataForCreation")
              ELSE IF Val(category_id) \notin categories
              THEN Fail(req, HTTP_400_BAD_REQUEST, "CategoryNotFound")
              ELSE IF ProductRows(args) # {}
              THEN [req EXCEPT !.pc = "code_create",
                       !.product = Some(FirstById(ProductRows(args)).id),
                       !.product_created = FALSE]
              ELSE [req EXCEPT !.pc = "product_create"]]
    /\ UNCHANGED <<db, adm, started, calls>>

\* The INSERT of get_or_create; on IntegrityError it SELECTs again
ScanProductCreate(t) ==
    /\ th[t].pc = "product_create"
    /\ LET args == Val(th[t].args)
           row == [id |-> NextId(products), category |-> Val(args.category_id),
                   name |-> args.name, brand |-> args.brand,
                   description |-> args.description]
       IN IF ProductConstraintViolated(products, row)
          THEN /\ th' = [th EXCEPT ![t] =
                    IF ProductRows(args) = {}
                    THEN Fail(th[t], HTTP_500_INTERNAL_SERVER_ERROR, "IntegrityError")
                    ELSE [th[t] EXCEPT !.pc = "code_create", !.retried = TRUE,
                            !.product = Some(FirstById(ProductRows(args)).id),
                            !.product_created = FALSE]]
               /\ UNCHANGED products
          ELSE /\ products' = products \cup {row}
               /\ th' = [th EXCEPT ![t] =
                    [th[t] EXCEPT !.pc = "code_create",
                        !.product = Some(row.id), !.product_created = TRUE,
                        !.wrote = @ \cup {"product"}]]
    /\ UNCHANGED <<codes, prices, adm, started, calls>>

\* A creation that inserts the code row and leaves code_created False.
ScanCodeCreate_FlagUnset(t) ==
    /\ th[t].pc = "code_create"
    /\ \E code_type \in CodeTypeInputs :
         LET row == [id |-> NextId(codes), code |-> th[t].code,
                     code_type |-> OrElse(code_type, BARCODE),
                     product |-> Val(th[t].product)]
         IN IF CodeConstraintViolated(codes, row)
            THEN /\ th' = [th EXCEPT ![t] =
                      Fail(th[t], HTTP_500_INTERNAL_SERVER_ERROR, "IntegrityError")]
                 /\ UNCHANGED codes
            ELSE /\ codes' = codes \cup {row}
                 /\ th' = [th EXCEPT ![t] =
                      [th[t] EXCEPT !.pc = "price", !.code_row = Some(row.id),
                          !.wrote = @ \cup {"code"}, !.sent_type = code_type]]
    /\ UNCHANGED <<products, prices, adm, started, calls>>

\* code_row = ProductCode.objects.create(...); code_created = True
ScanCodeCreate(t) ==
    /\ th[t].pc = "code_create"
    /\ \E code_type \in CodeTypeInputs :
         LET row == [id |-> NextId(codes), code |-> th[t].code,
                     code_type |-> OrElse(code_type, BARCODE),
                     product |-> Val(th[t].product)]
         IN IF CodeConstraintViolated(codes, row)
            THEN /\ th' = [th EXCEPT ![t] =
                      Fail(th[t], HTTP_500_INTERNAL_SERVER_ERROR, "IntegrityError")]
                 /\ UNCHANGED codes
            ELSE /\ codes' = codes \cup {row}
                 /\ th' = [th EXCEPT ![t] =
                      [th[t] EXCEPT !.pc = "price", !.code_row = Some(row.id),
                          !.code_created = TRUE, !.wrote = @ \cup {"code"},
                          !.sent_type = code_type]]
    /\ UNCHANGED <<products, prices, adm, started, calls>>

\* The store lookup and update_or_create's SELECT ... FOR UPDATE with, on a
\* hit, its UPDATE
ScanPrice(t) ==
    /\ th[t].pc = "price"
    /\ LET store_id == th[t].store_id
           price == th[t].price
           rows == {p \in prices : /\ p.product = Val(th[t].product)
                                   /\ p.store = Val(store_id)}
       IN IF store_id # None /\ price # None
          THEN IF Val(store_id) \notin stores
               THEN /\ th' = [th EXCEPT ![t] =
                         Fail(th[t], HTTP_400_BAD_REQUEST, "StoreNotFound")]
                    /\ UNCHANGED prices
               ELSE IF rows # {}
               THEN /\ prices' = (prices \ {FirstById(rows)}) \cup
                                   {[FirstById(rows) EXCEPT !.price = Val(price)]}
                    /\ th' = [th EXCEPT ![t] =
                         [th[t] EXCEPT !.pc = "respond", !.price_updated = TRUE,
                             !.wrote = @ \cup {"price"}]]
               ELSE /\ th' = [th EXCEPT ![t] = [th[t] EXCEPT !.pc = "price_create"]]
                    /\ UNCHANGED prices
          ELSE /\ th' = [th EXCEPT ![t] = [th[t] EXCEPT !.pc = "respond"]]
               /\ UNCHANGED prices
    /\ UNCHANGED <<products, codes, adm, started, calls>>

\* update_or_create's INSERT; on IntegrityError it SELECTs again and UPDATEs
ScanPriceCreate(t) ==
    /\ th[t].pc = "price_create"
    /\ LET row == [id |-> NextId(prices), product |-> Val(th[t].product),
                   store |-> Val(th[t].store_id), price |-> Val(th[t].price)]
           rows == {p \in prices : p.product = row.product /\ p.store = row.store}
       IN /\ prices' = IF PriceConstraintViolated(prices, row)
                       THEN (prices \ {FirstById(rows)}) \cup
                              {[FirstById(rows) EXCEPT !.price = row.price]}
                       ELSE prices \cup {row}
          /\ th' = [th EXCEPT ![t] =
                [th[t] EXCEPT !.pc = "respond", !.price_updated = TRUE,
                    !.wrote = @ \cup {"price"}]]
    /\ UNCHANGED <<products, codes, adm, started, calls>>

\* A response whose matched repeats code_created instead of negating it.
ScanRespond_MatchedNotNegated(t) ==
    /\ th[t].pc = "respond"
    /\ th' = [th EXCEPT ![t] = [th[t] EXCEPT !.pc = "done", !.resp = Some(
          [status |-> IF th[t].code_created THEN HTTP_201_CREATED ELSE HTTP_200_OK,
           detail |-> "",
           body |-> Some(
             [matched |-> th[t].code_created,
              product_created |-> th[t].product_created,
              code_created |-> th[t].code_created,
              price_updated |-> th[t].price_updated,
              scanned_code |-> Val(th[t].code_row),
              product |-> Val(th[t].product)])])]]
    /\ UNCHANGED <<db, adm, started, calls>>

\* A payload answered 200 whether or not a code was created.
ScanRespond_AlwaysOk(t) ==
    /\ th[t].pc = "respond"
    /\ th' = [th EXCEPT ![t] = [th[t] EXCEPT !.pc = "done", !.resp = Some(
          [status |-> HTTP_200_OK,
           detail |-> "",
           body |-> Some(
             [matched |-> ~th[t].code_created,
              product_created |-> th[t].product_created,
              code_created |-> th[t].code_created,
              price_updated |-> th[t].price_updated,
              scanned_code |-> Val(th[t].code_row),
              product |-> Val(th[t].product)])])]]
    /\ UNCHANGED <<db, adm, started, calls>>

\* return Response({...}, status=status_code)
ScanRespond(t) ==
    /\ th[t].pc = "respond"
    /\ th' = [th EXCEPT ![t] = [th[t] EXCEPT !.pc = "done", !.resp = Some(
          [status |-> IF th[t].code_created THEN HTTP_201_CREATED ELSE HTTP_200_OK,
           detail |-> "",
           body |-> Some(
             [matched |-> ~th[t].code_created,
              product_created |-> th[t].product_created,
              code_created |-> th[t].code_created,
              price_updated |-> th[t].price_updated,
              scanned_code |-> Val(th[t].code_row),
              product |-> Val(th[t].product)])])]]
    /\ UNCHANGED <<db, adm, started, calls>>

(***************************************************************************)
(* Admin: the inline batch of product codes on a product's change page     *)
(***************************************************************************)
\* The inline forms of one submission: the code typed in (None: left blank)
\* and the DELETE checkbox.
FormInputs ==
    [code : {None} \cup {Some(c) : c \in Codes}, DELETE : {FALSE}]
        \cup {[code |-> None, DELETE |-> TRUE]}
BatchSizes == {1, 2}
Batches == UNION {[1..n -> FormInputs] : n \in BatchSizes}

Exhausted == "exhausted"

\* The values build_unique_product_code can return for the candidates its loop
\* draws: a candidate that is neither reserved nor stored, or, every draw of
\* the loop having collided, the ValidationError.
build_unique_product_code(reserved, stored) ==
    (Codes \ (reserved \cup stored))
        \cup (IF (reserved \cup stored) \cap Codes # {} THEN {Exhausted} ELSE {})

StoredCodes == {c.code : c \in codes}

\* ProductCodeAutoForm.clean: the codes a form can hold after it
FormClean(form, stored) ==
    IF form.DELETE THEN {form.code}
    ELSE IF Get(form.code, "") = ""
    THEN {Some(c) : c \in build_unique_product_code({}, stored)}
    ELSE {form.code}

\* ProductCodeInlineFormSet.clean over the forms from position i on: the
\* sequences of codes it can leave (None for a form marked DELETE), each with
\* whether a ValidationError was raised.
RECURSIVE FormSetClean(_, _, _, _)
FormSetClean(forms, i, used_codes, stored) ==
    IF i > Len(forms) THEN {[ok |-> TRUE, codes |-> <<>>]}
    ELSE LET form == forms[i]
             code == Get(form.code, "")
             Rest(c, used) ==
                 {[ok |-> r.ok, codes |-> <<c>> \o r.codes] :
                     r \in FormSetClean(forms, i + 1, used, stored)}
         IN IF form.DELETE THEN Rest(None, used_codes)
            ELSE IF code = "" \/ code \in used_codes
            THEN UNION {IF c = Exhausted
                        THEN {[ok |-> FALSE, codes |-> <<>>]}
                        ELSE Rest(Some(c), used_codes \cup {c}) :
                        c \in build_unique_product_code(used_codes, stored)}
            ELSE Rest(Some(code), used_codes \cup {code})

AdminIdle ==
    [pc |-> "idle", product |-> None, codes |-> <<>>, result |-> "",
     \* history, read by the properties only: the codes stored when the
     \* submission was validated
     seen |-> {}]

\* Every form's full_clean: the sequences of forms they can leave, from
\* position i on.
RECURSIVE FormsClean(_, _, _)
FormsClean(batch, i, stored) ==
    IF i > Len(batch) THEN {<<>>}
    ELSE {<<[code |-> c, DELETE |-> batch[i].DELETE]>> \o r :
            c \in FormClean(batch[i], stored),
            r \in FormsClean(batch, i + 1, stored)}

\* The submission is validated: every form's clean, then the formset's clean.
AdminClean ==
    /\ adm.pc \in {"idle", "done"}
    /\ started < MaxRequests
    /\ started' = started + 1
    /\ \E p \in products, batch \in Batches :
       \E forms \in FormsClean(batch, 1, StoredCodes) :
         IF \E i \in 1..Len(forms) : forms[i].code = Some(Exhausted)
         THEN adm' = [AdminIdle EXCEPT !.pc = "done", !.result = "invalid"]
         ELSE \E r \in FormSetClean(forms, 1, {}, StoredCodes) :
                adm' = IF r.ok
                       THEN [pc |-> "save", product |-> Some(p.id),
                             codes |-> SelectSeq(r.codes, LAMBDA c : c # None),
                             result |-> "", seen |-> StoredCodes]
                       ELSE [AdminIdle EXCEPT !.pc = "done", !.result = "invalid"]
    /\ UNCHANGED <<db, th, calls>>

\* The rows a valid submission inserts: one per form not marked DELETE, in
\* form order.
NewCodeRows(cs, product, next_id) ==
    {[id |-> next_id + i - 1, code |-> Val(cs[i]), code_type |-> BARCODE,
      product |-> product] : i \in 1..Len(cs)}

\* formset.save() inside the admin view's transaction: an IntegrityError on
\* one INSERT rolls the whole submission back.
AdminSave ==
    /\ adm.pc = "save"
    /\ LET rows == NewCodeRows(adm.codes, Val(adm.product), NextId(codes))
           clash == \E r \in rows :
                      CodeConstraintViolated(codes \cup (rows \ {r}), r)
       IN IF clash
          THEN /\ adm' = [AdminIdle EXCEPT !.pc = "done", !.result = "IntegrityError"]
               /\ UNCHANGED codes
          ELSE /\ adm' = [AdminIdle EXCEPT !.pc = "done", !.result = "saved"]
               /\ codes' = codes \cup rows
    /\ UNCHANGED <<products, prices, th, started, calls>>

ScanInit ==
    /\ products = {[id |-> 1, category |-> 1, name |-> "n0", brand |-> "",
                    description |-> "d0"]}
    /\ codes = {}
    /\ prices = {[id |-> 1, product |-> 1, store |-> 1, price |-> 225]}
    /\ th = [t \in Threads |-> Idle]
    /\ adm = AdminIdle
    /\ started = 0

Init ==
    /\ ScanInit
    /\ ean = None /\ fs = None /\ cmp = None /\ ofr = None /\ dsc = None /\ bst = None /\ adr = None

Next ==
    \/ \E t \in Threads :
        \/ ScanValidate(t)
        \/ ScanLookup(t)
        \/ ScanProductGet(t)
        \/ ScanProductCreate(t)
        \/ ScanCodeCreate(t)
        \/ ScanPrice(t)
        \/ ScanPriceCreate(t)
        \/ ScanRespond(t)
    \/ AdminClean
    \/ AdminSave

Spec == Init /\ [][Next]_vars

(***************************************************************************)
(* Properties                                                              *)
(***************************************************************************)
Done(t) == th[t].pc = "done"
Resp(t) == Val(th[t].resp)
Detail(t) == IF Done(t) THEN Resp(t).detail ELSE ""
\* The request was answered with the scan payload (200 or 201).
Ok(t) == Done(t) /\ Resp(t).body # None
Body(t) == Val(Resp(t).body)
\* Thread t takes a step.
Steps(t) == th'[t] # th[t]
\* The request carries store_id and price.
HasPair(t) == th[t].store_id # None /\ th[t].price # None
CodeRows(c) == {r \in codes : r.code = c}
Missed(t) == th[t].looked /\ ~th[t].hit

\* C1 as stated: a scan of a code that is in storage always answers
\* matched = true, product_created = false, code_created = false for the
\* code's owning product.
C1_AlwaysMatched ==
    \A t \in Threads : Done(t) /\ th[t].hit =>
        /\ Ok(t)
        /\ Body(t).matched
        /\ ~Body(t).product_created
        /\ ~Body(t).code_created

C1_MatchedAnswer ==
    \A t \in Threads : Done(t) /\ th[t].hit =>
        /\ th[t].wrote \cap {"product", "code"} = {}
        /\ \/ Detail(t) = "StoreNotFound"
           \/ /\ Ok(t)
              /\ Resp(t).status = HTTP_200_OK
              /\ Body(t).matched
              /\ ~Body(t).product_created
              /\ ~Body(t).code_created
              /\ \E r \in CodeRows(th[t].code) :
                    r.id = Body(t).scanned_code /\ r.product = Body(t).product

C1_MatchedWritesNoRow ==
    \A t \in Threads : th[t].hit /\ Steps(t) =>
        products' = products /\ codes' = codes

\* C1 (amended): a scan whose code is in storage, unless it is rejected for
\* its store (StoreNotFound), answers matched = true, product_created = false
\* and code_created = false for the code's owning product; whatever it
\* answers, none of its steps changes the Product or the ProductCode rows.
C1_ExistingCodeMatches == []C1_MatchedAnswer /\ [][C1_MatchedWritesNoRow]_vars

C1_Witness ==
    \E t \in Threads :
        Ok(t) /\ th[t].hit /\ Body(t).matched /\ Body(t).price_updated

\* The (category, name, brand) the request names, once its fields are read
Named(t) == Val(th[t].args)
NamesProduct(t, p) ==
    /\ Some(p.category) = Named(t).category_id
    /\ p.name = Named(t).name
    /\ p.brand = Named(t).brand
\* The request was refused for want of category_id or name.
LacksCreationData(t) ==
    /\ th[t].args # None
    /\ Named(t).category_id = None \/ Named(t).name = ""
\* The scan found its code unknown and has inserted the code row itself.
Created(t) == Missed(t) /\ "code" \in th[t].wrote

C2_RefusedWithoutData ==
    \A t \in Threads : Missed(t) /\ LacksCreationData(t) =>
        /\ Done(t)
        /\ Resp(t).status = HTTP_404_NOT_FOUND
        /\ Resp(t).detail = "InsufficientDataForCreation"
        /\ th[t].wrote = {}

C2_CheckWritesNoRow ==
    \A t \in Threads : th[t].pc = "product_get" /\ Steps(t) => UNCHANGED db

C3_CreatedRows ==
    \A t \in Threads : Created(t) =>
        /\ \E r \in codes :
             /\ CodeRows(th[t].code) = {r}
             /\ Some(r.id) = th[t].code_row
             /\ Some(r.product) = th[t].product
        /\ \E p \in products :
             /\ {q \in products : NamesProduct(t, q)} = {p}
             /\ Some(p.id) = th[t].product
        /\ th[t].product_created <=> "product" \in th[t].wrote
        /\ Ok(t) =>
             /\ Resp(t).status = HTTP_201_CREATED
             /\ ~Body(t).matched
             /\ Body(t).code_created
             /\ Body(t).product_created = th[t].product_created
             /\ Some(Body(t).product) = th[t].product
             /\ Some(Body(t).scanned_code) = th[t].code_row

C3_MatchedLater ==
    \A t \in Threads : Ok(t) /\ ~Missed(t) =>
        /\ Body(t).matched
        /\ ~Body(t).code_created /\ ~Body(t).product_created
        /\ \E r \in CodeRows(th[t].code) : r.product = Body(t).product
        /\ th[t].wrote \subseteq {"price"}

\* The INSERT of a triple that is not in the catalog adds one product row.
C3_InsertsOneProduct ==
    \A t \in Threads :
        th[t].pc = "product_create" /\ Steps(t)
            /\ {q \in products : NamesProduct(t, q)} = {} =>
        /\ th'[t].product_created
        /\ \E p \in products' :
             /\ products' = products \cup {p} /\ p \notin products
             /\ NamesProduct(t, p)
             /\ th'[t].product = Some(p.id)

\* The INSERT of the code adds one code row, bound to the resolved product.
C3_InsertsOneCode ==
    \A t \in Threads :
        th[t].pc = "code_create" /\ Steps(t) /\ CodeRows(th[t].code) = {} =>
        \E r \in codes' :
             /\ codes' = codes \cup {r} /\ r \notin codes
             /\ r.code = th[t].code /\ Some(r.product) = th[t].product
             /\ th'[t].code_created

\* A lookup of a stored code finds it and resolves to its product.
C3_LookupFindsRow ==
    \A t \in Threads :
        th[t].pc = "lookup" /\ Steps(t) /\ CodeRows(th[t].code) # {} =>
        /\ th'[t].pc = "price"
        /\ \E r \in CodeRows(th[t].code) : th'[t].product = Some(r.product)
        /\ ~th'[t].code_created /\ ~th'[t].product_created

\* C3: a scan of a code that is unknown until the scan inserts it, with an
\* existing category and a name, adds exactly one code row bound to the
\* product of the named (category, name, brand), adds exactly one product row
\* when that triple is not in the catalog, and answers matched = false,
\* product_created = true, code_created = true; every later scan of the code
\* finds that row and answers matched = true for the same product, creating
\* nothing.
C3_CreateThenMatch ==
    /\ [](C3_CreatedRows /\ C3_MatchedLater)
    /\ [][C3_InsertsOneProduct /\ C3_InsertsOneCode /\ C3_LookupFindsRow]_vars

C3_Witness ==
    \E t1, t2 \in Threads :
        /\ Ok(t1) /\ Created(t1)
        /\ Body(t1).product_created /\ Body(t1).code_created
        /\ Ok(t2) /\ th[t2].hit /\ th[t2].code = th[t1].code
        /\ Body(t2).matched /\ Body(t2).product = Body(t1).product

\* The request passed the checks of category_id, name and the category.
HasCreationData(t) ==
    /\ th[t].args # None
    /\ ~LacksCreationData(t)
    /\ Val(Named(t).category_id) \in categories

\* C4: two scans of the same unknown code, both with valid creation data,
\* leave one product row and one code row for that code.
C4_OneProductOneCode ==
    \A t1, t2 \in Threads :
        /\ t1 # t2 /\ Done(t1) /\ Done(t2)
        /\ th[t1].code = th[t2].code
        /\ Missed(t1) /\ Missed(t2)
        /\ HasCreationData(t1) /\ HasCreationData(t2)
        => /\ Cardinality(CodeRows(th[t1].code)) = 1
           /\ ~("product" \in th[t1].wrote /\ "product" \in th[t2].wrote)

\* C5: a scan that found its code unknown and then lost the insert to a
\* concurrent request is answered matched = true for the existing code's
\* product.
C5_LostRaceResolves ==
    \A t \in Threads :
        /\ Done(t) /\ Missed(t) /\ HasCreationData(t)
        /\ "code" \notin th[t].wrote
        /\ CodeRows(th[t].code) # {}
        => /\ Ok(t)
           /\ Body(t).matched
           /\ \E r \in CodeRows(th[t].code) : r.product = Body(t).product

\* C6: a scan of an unknown code with valid category and name that is
\* refused with StoreNotFound persists none of its rows.
C6_StoreNotFoundWritesNothing ==
    \A t \in Threads :
        Done(t) /\ Missed(t) /\ Detail(t) = "StoreNotFound" => th[t].wrote = {}

PairIncomplete(t) == (th[t].store_id = None) # (th[t].price = None)

C7_Refused ==
    \A t \in Threads : PairIncomplete(t) =>
        /\ Done(t)
        /\ Resp(t).status = HTTP_400_BAD_REQUEST
        /\ Resp(t).detail = "PricePairIncomplete"
        /\ ~th[t].looked
        /\ th[t].wrote = {}

C7_ValidationWritesNoRow ==
    \A t \in Threads : th[t].pc \in {"idle", "done"} /\ Steps(t) => UNCHANGED db

\* C7: a scan with store_id and no price, or price and no store_id, is
\* answered 400 PricePairIncomplete before any lookup, and no row is written,
\* for a known and an unknown code alike.
C7_PricePairIncomplete == []C7_Refused /\ [][C7_ValidationWritesNoRow]_vars

C7_Witness ==
    \E t \in Threads :
        /\ Detail(t) = "PricePairIncomplete"
        /\ CodeRows(th[t].code) # {}
        /\ th[t].price = None

\* C8: no two ProductCode rows hold the same code.
C8_CodesUnique ==
    \A r1, r2 \in codes : r1.code = r2.code => r1 = r2

C8_Witness ==
    /\ adm.result = "IntegrityError"
    /\ \E t \in Threads : Created(t)

C9_TriplesUnique ==
    \A p1, p2 \in products :
        p1.category = p2.category /\ p1.name = p2.name /\ p1.brand = p2.brand
            => p1 = p2

C9_SameTripleSameProduct ==
    \A t1, t2 \in Threads :
        /\ Created(t1) /\ Created(t2)
        /\ Named(t1).category_id = Named(t2).category_id
        /\ Named(t1).name = Named(t2).name
        /\ Named(t1).brand = Named(t2).brand
        => /\ th[t1].product = th[t2].product
           /\ \A r \in CodeRows(th[t1].code) \cup CodeRows(th[t2].code) :
                Some(r.product) = th[t1].product

\* C9: no two Product rows share (category, name, brand); concurrent scans of
\* different unknown codes that name the same triple bind both codes to one
\* product.
C9_OneProductPerTriple == C9_TriplesUnique /\ C9_SameTripleSameProduct

C9_Witness ==
    \E t1, t2 \in Threads :
        /\ Ok(t1) /\ Ok(t2) /\ Created(t1) /\ Created(t2)
        /\ th[t1].code # th[t2].code
        /\ th[t1].args = th[t2].args
        /\ Body(t1).product_created /\ th[t2].retried
        /\ Body(t1).product = Body(t2).product

PriceRows(product, store) ==
    {r \in prices : r.product = product /\ r.store = store}

C10_PairsUnique ==
    \A r1, r2 \in prices :
        r1.product = r2.product /\ r1.store = r2.store => r1 = r2

C10_Reported ==
    \A t \in Threads : Ok(t) =>
        (Body(t).price_updated <=> HasPair(t))

\* The step of update_or_create that writes leaves one row for the pair, at
\* the supplied price, and every other row as it was.
C10_Upsert ==
    \A t \in Threads :
        /\ th[t].pc \in {"price", "price_create"} /\ Steps(t)
        /\ HasPair(t) /\ Val(th[t].store_id) \in stores
        /\ th'[t].pc = "respond"
        => LET product == Val(th[t].product)
               store == Val(th[t].store_id)
               row == [id |-> IF PriceRows(product, store) = {}
                               THEN NextId(prices)
                               ELSE FirstById(PriceRows(product, store)).id,
                       product |-> product, store |-> store,
                       price |-> Val(th[t].price)]
           IN /\ prices' = (prices \ PriceRows(product, store)) \cup {row}
              /\ th'[t].price_updated

\* C10: a scan with store_id and price for an existing store leaves exactly
\* one price row for (resolved product, store), at the supplied price, reports
\* price_updated = true and leaves every other price row unchanged; no two
\* price rows ever share (product, store).
C10_PriceUpsert ==
    [](C10_PairsUnique /\ C10_Reported) /\ [][C10_Upsert]_vars

C10_Witness ==
    \E t \in Threads :
        /\ Ok(t) /\ Body(t).price_updated
        /\ \E r \in prices :
             /\ r.id = 1 /\ r.price = Val(th[t].price) /\ r.price # 225
             /\ r.product = Body(t).product

(***************************************************************************)
(* build_ean13_code                                                        *)
(***************************************************************************)
\* string.digits
digits == <<"0", "1", "2", "3", "4", "5", "6", "7", "8", "9">>

\* int(char) for a character of string.digits
int(char) == (CHOOSE i \in 1..Len(digits) : digits[i] = char) - 1

\* f'{check_digit}' for a check digit
str(n) == digits[n + 1]

\* random.choices(string.digits, k=12)
BASE_LENGTH == 12

\* The weights taken the other way round: 3 at even positions.
Weight_Swapped(idx, digit) == IF idx % 2 = 0 THEN digit * 3 ELSE digit

\* digit if idx % 2 == 0 else digit * 3
Weight(idx, digit) == IF idx % 2 = 0 THEN digit ELSE digit * 3

\* The bases drawn: every digit at every position and every two digits at
\* every two positions, over a fill of one repeated digit.
FillDigits == {"0", "7"}
EanBases ==
    {[k \in 1..BASE_LENGTH |->
        IF k = i THEN digits[a] ELSE IF k = j THEN digits[b] ELSE p] :
        i \in 1..BASE_LENGTH, j \in 1..BASE_LENGTH,
        a \in 1..Len(digits), b \in 1..Len(digits), p \in FillDigits}

EanIdle == [pc |-> "idle", base |-> <<>>, idx |-> 0, total |-> 0, result |-> None]

\* base = ''.join(random.choices(string.digits, k=12)); total = 0
EanDraw ==
    /\ ean.pc = "idle"
    /\ \E base \in EanBases :
         ean' = [EanIdle EXCEPT !.pc = "sum", !.base = base]
    /\ UNCHANGED <<db, th, adm, started, fs, cmp, ofr, others>>

\* One turn of "for idx, char in enumerate(base)"
EanSum ==
    /\ ean.pc = "sum"
    /\ ean.idx < Len(ean.base)
    /\ LET char == ean.base[ean.idx + 1]
           digit == int(char)
       IN ean' = [ean EXCEPT !.total = @ + Weight(ean.idx, digit),
                             !.idx = @ + 1]
    /\ UNCHANGED <<db, th, adm, started, fs, cmp, ofr, others>>

\* check_digit = (10 - (total % 10)) % 10; return f'{base}{check_digit}'
EanReturn ==
    /\ ean.pc = "sum"
    /\ ean.idx = Len(ean.base)
    /\ LET check_digit == (10 - (ean.total % 10)) % 10
       IN ean' = [ean EXCEPT !.pc = "done",
                    !.result = Some(ean.base \o <<str(check_digit)>>)]
    /\ UNCHANGED <<db, th, adm, started, fs, cmp, ofr, others>>

EanInit ==
    /\ ScanInit
    /\ ean = EanIdle
    /\ fs = None /\ cmp = None /\ ofr = None /\ dsc = None /\ bst = None /\ adr = None

EanNext == EanDraw \/ EanSum \/ EanReturn

EanSpec == EanInit /\ [][EanNext]_vars

\* The sum of the first n digits of code, weight 1 at the even 0-based
\* positions and 3 at the odd ones.
RECURSIVE WeightedSum(_, _)
WeightedSum(code, n) ==
    IF n = 0 THEN 0
    ELSE WeightedSum(code, n - 1)
           + int(code[n]) * (IF (n - 1) % 2 = 0 THEN 1 ELSE 3)

\* C11: every code build_ean13_code returns is 13 decimal digits, the drawn
\* base followed by the digit (10 - (S mod 10)) mod 10, S the weighted sum of
\* the first 12 digits (weight 1 at even 0-based positions, 3 at odd ones).
C11_CheckDigit ==
    ean.pc = "done" =>
        LET code == Val(ean.result)
        IN /\ Len(code) = 13
           /\ \A k \in 1..13 : \E d \in 1..10 : code[k] = digits[d]
           /\ SubSeq(code, 1, 12) = ean.base
           /\ int(code[13]) = (10 - (WeightedSum(code, 12) % 10)) % 10

C11_Witness ==
    /\ ean.pc = "done"
    /\ Val(ean.result)[2] = "9" /\ Val(ean.result)[5] = "4"
    /\ Val(ean.result)[13] = "9"

(***************************************************************************)
(* The admin formset's clean, statement by statement:                      *)
(* ProductCodeAutoForm.clean of every form, then                           *)
(* ProductCodeInlineFormSet.clean, each call of build_unique_product_code  *)
(* a loop of attempts.  The forms hold the values of their cleaned_data:   *)
(* a code is trimmed by its form field.  super().clean() is Django's and   *)
(* is not modelled.                                                        *)
(***************************************************************************)
\* for _ in range(50)
MAX_ATTEMPTS == 50

\* A loop that goes on drawing.
LoopNeverEnds(attempt) == FALSE

\* range(50) is used up
LoopEnds(attempt) == attempt = MAX_ATTEMPTS

\* A test that looks at storage only.
Collides_StorageOnly(candidate, reserved, stored) == candidate \in stored

\* "candidate in reserved", then "ProductCode.objects.filter(code=candidate)
\* .exists()"
Collides(candidate, reserved, stored) ==
    candidate \in reserved \/ candidate \in stored

\* The codes an admin types: those the generators can produce, and one more.
TypedCodes == Codes \cup {"u1"}
FsForms ==
    [code : {None} \cup {Some(c) : c \in TypedCodes}, DELETE : {FALSE}]
        \cup {[code |-> None, DELETE |-> TRUE]}
FsBatchSizes == {1, 2, 3}
FsBatches == UNION {[1..n -> FsForms] : n \in FsBatchSizes}

\* ProductCode rows holding the codes S, all of product 1.
RECURSIVE StoredRows(_)
StoredRows(S) ==
    IF S = {} THEN {}
    ELSE LET c == CHOOSE c \in S : TRUE
         IN StoredRows(S \ {c}) \cup
              {[id |-> Cardinality(S), code |-> c, code_type |-> BARCODE,
                product |-> 1]}

\* The submission as it arrives.
FsStart(batch, stored) ==
    [pc |-> "form", forms |-> batch, i |-> 1, used_codes |-> {},
     errors |-> FALSE, gen |-> None, result |-> "",
     \* history, read by the properties only
     typed |-> batch, stored0 |-> stored, returned |-> None, raised |-> FALSE]

\* build_unique_product_code is entered: reserved = reserved_codes or set()
Call(reserved) == Some([attempt |-> 0, reserved |-> reserved])

\* ProductCodeAutoForm.clean of form i; after the last form, the formset's
\* clean begins (used_codes = set()).
FsFormClean ==
    /\ fs.pc = "form" /\ fs.gen = None
    /\ fs' = IF fs.i > Len(fs.forms)
             THEN [fs EXCEPT !.pc = "formset", !.i = 1, !.used_codes = {}]
             ELSE LET cleaned_data == fs.forms[fs.i]
                      code == Get(cleaned_data.code, "")
                  IN IF cleaned_data.DELETE THEN [fs EXCEPT !.i = @ + 1]
                     ELSE IF code = "" THEN [fs EXCEPT !.gen = Call({})]
                     ELSE [fs EXCEPT !.i = @ + 1]
    /\ UNCHANGED <<db, th, adm, started, ean, cmp, ofr, others>>

\* One turn of "for _ in range(50)": a candidate is drawn and tested; the
\* one that passes is returned to the caller, which stores it in
\* cleaned_data['code'] (and, in the formset, adds it to used_codes).
GenAttempt ==
    /\ fs.gen # None
    /\ ~LoopEnds(Val(fs.gen).attempt)
    /\ \E candidate \in Codes :
         LET gen == Val(fs.gen)
         IN fs' = IF Collides(candidate, gen.reserved, StoredCodes)
                  THEN [fs EXCEPT !.gen = Some([gen EXCEPT !.attempt = @ + 1])]
                  ELSE [fs EXCEPT !.gen = None,
                          !.forms[fs.i].code = Some(candidate),
                          !.used_codes = IF fs.pc = "formset"
                                         THEN @ \cup {candidate} ELSE @,
                          !.i = @ + 1,
                          !.returned = Some([code |-> candidate,
                                             reserved |-> gen.reserved])]
    /\ UNCHANGED <<db, th, adm, started, ean, cmp, ofr, others>>

\* raise ValidationError('No se pudo generar un codigo unico.'): in a form's
\* clean it is that form's error, in the formset's clean it ends the clean.
GenRaise ==
    /\ fs.gen # None
    /\ LoopEnds(Val(fs.gen).attempt)
    /\ fs' = IF fs.pc = "form"
             THEN [fs EXCEPT !.gen = None, !.errors = TRUE, !.i = @ + 1,
                             !.raised = TRUE]
             ELSE [fs EXCEPT !.gen = None, !.errors = TRUE, !.pc = "done",
                             !.result = "invalid", !.raised = TRUE]
    /\ UNCHANGED <<db, th, adm, started, ean, cmp, ofr, others>>

\* A formset clean that does not add the codes it keeps to used_codes.
FsFormSetClean_NoReserve ==
    /\ fs.pc = "formset" /\ fs.gen = None
    /\ fs' = IF fs.i > Len(fs.forms)
             THEN [fs EXCEPT !.pc = "done",
                     !.result = IF fs.errors THEN "invalid" ELSE "valid"]
             ELSE LET cleaned_data == fs.forms[fs.i]
                      code == Get(cleaned_data.code, "")
                  IN IF cleaned_data.DELETE THEN [fs EXCEPT !.i = @ + 1]
                     ELSE IF code = "" \/ code \in fs.used_codes
                     THEN [fs EXCEPT !.gen = Call(fs.used_codes)]
                     ELSE [fs EXCEPT !.i = @ + 1]
    /\ UNCHANGED <<db, th, adm, started, ean, cmp, ofr, others>>

\* One turn of "for form in self.forms" of ProductCodeInlineFormSet.clean;
\* after the last form the submission is valid unless a form had an error.
FsFormSetClean ==
    /\ fs.pc = "formset" /\ fs.gen = None
    /\ fs' = IF fs.i > Len(fs.forms)
             THEN [fs EXCEPT !.pc = "done",
                     !.result = IF fs.errors THEN "invalid" ELSE "valid"]
             ELSE LET cleaned_data == fs.forms[fs.i]
                      code == Get(cleaned_data.code, "")
                  IN IF cleaned_data.DELETE THEN [fs EXCEPT !.i = @ + 1]
                     ELSE IF code = "" \/ code \in fs.used_codes
                     THEN [fs EXCEPT !.gen = Call(fs.used_codes)]
                     ELSE [fs EXCEPT !.used_codes = @ \cup {code}, !.i = @ + 1]
    /\ UNCHANGED <<db, th, adm, started, ean, cmp, ofr, others>>

\* Another request commits a ProductCode row while a code is being generated
\* (the clean reads storage nowhere else).
FsOtherInsert ==
    /\ fs.gen # None
    /\ \E c \in Codes \ StoredCodes :
         codes' = codes \cup {[id |-> NextId(codes), code |-> c,
                               code_type |-> BARCODE, product |-> 1]}
    /\ UNCHANGED <<products, prices, th, adm, started, calls>>

FsInit ==
    /\ products = {[id |-> 1, category |-> 1, name |-> "n0", brand |-> "",
                    description |-> "d0"]}
    /\ prices = {}
    /\ th = [t \in Threads |-> Idle]
    /\ adm = AdminIdle
    /\ started = 0
    /\ \E batch \in FsBatches, stored \in SUBSET Codes :
         /\ codes = StoredRows(stored)
         /\ fs = FsStart(batch, stored)
    /\ ean = None /\ cmp = None /\ ofr = None /\ dsc = None /\ bst = None /\ adr = None

FsStep == FsFormClean \/ GenAttempt \/ GenRaise \/ FsFormSetClean

FsNext == FsStep \/ FsOtherInsert

FsSpec == FsInit /\ [][FsNext]_vars

\* ProductCodeInlineFormSet.clean under weak fairness of its own steps: the
\* clean is not suspended forever.
FsLive == FsSpec /\ WF_vars(FsStep)

\* The forms the formset's clean has gone through.
Processed ==
    IF fs.pc = "formset" THEN 1..(fs.i - 1)
    ELSE IF fs.pc = "done" /\ fs.result = "valid" THEN 1..Len(fs.forms)
    ELSE {}
Kept == {i \in Processed : ~fs.forms[i].DELETE}

\* C12: after ProductCodeInlineFormSet.clean the codes of the forms not
\* marked DELETE are non-blank and pairwise distinct, and so are, at every
\* turn of its loop, the codes of the forms gone through, which are the
\* members of used_codes.
C12_BatchCodesDistinct ==
    /\ \A i \in Kept : fs.forms[i].code # None
    /\ \A i, j \in Kept : fs.forms[i].code = fs.forms[j].code => i = j
    /\ fs.pc = "formset" => fs.used_codes = {Val(fs.forms[i].code) : i \in Kept}

C12_Witness ==
    /\ fs.pc = "done" /\ fs.result = "valid"
    /\ Len(fs.typed) = 3
    /\ fs.typed[1] = [code |-> Some("u1"), DELETE |-> FALSE]
    /\ fs.typed[2] = fs.typed[1]
    /\ fs.typed[3] = [code |-> None, DELETE |-> FALSE]
    /\ Cardinality({fs.forms[i].code : i \in 1..3}) = 3

\* The step on which build_unique_product_code returns.
Returns ==
    /\ fs.gen # None /\ fs'.gen = None
    /\ Val(fs.gen).attempt < MAX_ATTEMPTS

C13_ReturnPassedBothTests ==
    Returns =>
        LET code == Val(fs'.forms[fs.i].code)
        IN /\ code \notin Val(fs.gen).reserved
           /\ code \notin StoredCodes
           /\ fs'.returned = Some([code |-> code,
                                   reserved |-> Val(fs.gen).reserved])

C13_ReturnedNotReserved ==
    fs.returned # None => Val(fs.returned).code \notin Val(fs.returned).reserved

\* C13: the code build_unique_product_code returns is, on the attempt that
\* returns it, neither in the reservation set it was passed nor in a
\* ProductCode row.
C13_ReturnsUnusedCode ==
    []C13_ReturnedNotReserved /\ [][C13_ReturnPassedBothTests]_vars

C13_Witness ==
    /\ fs.returned # None
    /\ Val(fs.returned).reserved # {}
    /\ fs.stored0 # {}
    /\ Val(fs.returned).code \in StoredCodes

C14_AttemptsBounded ==
    fs.gen # None => Val(fs.gen).attempt \in 0..50

\* Every rejected candidate, by the reservation set or by storage, is one
\* attempt; at 50 the call raises.
C14_CountsAndRaises ==
    fs.gen # None /\ fs' # fs =>
        IF Val(fs.gen).attempt = 50
        THEN fs'.gen = None /\ fs'.raised /\ fs'.errors /\ fs'.forms = fs.forms
        ELSE \/ fs'.gen = Some([Val(fs.gen) EXCEPT !.attempt = @ + 1])
                  /\ fs'.forms = fs.forms
             \/ fs'.gen = None /\ fs'.forms[fs.i].code # None

C14_RaiseAborts ==
    fs.raised /\ fs.pc = "done" => fs.result = "invalid"

\* C14: build_unique_product_code makes at most 50 attempts, a candidate
\* rejected by the reservation set or by storage counting as one; after 50
\* rejections it raises the ValidationError and the submission is invalid;
\* the clean always ends.
C14_GenerationBounded ==
    /\ [](C14_AttemptsBounded /\ C14_RaiseAborts)
    /\ [][C14_CountsAndRaises]_vars
    /\ <>(fs.pc = "done")

C14_Witness ==
    /\ fs.pc = "done" /\ fs.raised /\ fs.result = "invalid"
    /\ \E i \in 1..Len(fs.forms) : ~fs.forms[i].DELETE /\ fs.forms[i].code = None

\* C15: a typed code that is in storage, or that an earlier form of the
\* batch holds, is replaced by a generated one; a typed code that is neither
\* is kept.
C15_CollidingCodeReplaced ==
    fs.pc = "done" /\ fs.result = "valid" =>
        \A i \in 1..Len(fs.typed) :
            ~fs.typed[i].DELETE /\ fs.typed[i].code # None =>
                LET code == fs.typed[i].code
                    collides ==
                        \/ Val(code) \in fs.stored0
                        \/ \E j \in 1..(i - 1) :
                             ~fs.forms[j].DELETE /\ fs.forms[j].code = code
                IN IF collides THEN fs.forms[i].code # code
                   ELSE fs.forms[i].code = code

(***************************************************************************)
(* ProductPriceComparisonView.get (compare_prices), on a price table no    *)
(* other request writes meanwhile.  A text is the sequence of its          *)
(* characters; an amount is in cents and str(amount) is its units and its  *)
(* two decimals.                                                           *)
(***************************************************************************)
Letters == {"a", "b", "A", "B"}

\* str.lower() of one character; the database's case folding
UPPERCASE ==
    <<"A", "B", "C", "D", "E", "F", "G", "H", "I", "J", "K", "L", "M",
      "N", "O", "P", "Q", "R", "S", "T", "U", "V", "W", "X", "Y", "Z">>
LOWERCASE ==
    <<"a", "b", "c", "d", "e", "f", "g", "h", "i", "j", "k", "l", "m",
      "n", "o", "p", "q", "r", "s", "t", "u", "v", "w", "x", "y", "z">>
lowercase(char) ==
    IF \E i \in 1..Len(UPPERCASE) : UPPERCASE[i] = char
    THEN LOWERCASE[CHOOSE i \in 1..Len(UPPERCASE) : UPPERCASE[i] = char]
    ELSE char

Lower(text) == [i \in 1..Len(text) |-> lowercase(text[i])]

\* name__iexact
iexact(name, value) == Lower(name) = Lower(value)

\* name__icontains
icontains(name, value) ==
    \E k \in 0..(Len(name) - Len(value)) :
        SubSeq(Lower(name), k + 1, k + Len(value)) = Lower(value)

\* The integer a text of digits stands for: filter(id=product_id)
RECURSIVE ToInt(_)
ToInt(text) ==
    IF text = <<>> THEN 0
    ELSE 10 * ToInt(SubSeq(text, 1, Len(text) - 1)) + int(text[Len(text)])

\* str(Decimal) of an amount of two decimal places
DecimalStr(amount) == <<amount \div 100, amount % 100>>

\* Store.name
StoreNames == <<"Tia", "Toti", "Aki">>

\* "not value" for a query parameter
Falsy(param) == param = None \/ Val(param) = <<>>

\* QuerySet.first(): None, or the first row in the queryset's order. The
\* order of rows that tie, and of names under the database's collation, is
\* the database's: any row can come first.
first(rows) == IF rows = {} THEN {None} ELSE {Some(r) : r \in rows}

\* The orders a queryset of these rows can come in
Orderings(rows) ==
    {q \in [1..Cardinality(rows) -> rows] :
        \A i, j \in 1..Cardinality(rows) : q[i] = q[j] => i = j}

\* An order_by that sorts nothing.
AnyOrder(rows) == Orderings(rows)

\* order_by('price'): the orders the database can return, rows of one price
\* in any order
order_by_price(rows) ==
    {q \in Orderings(rows) :
        \A i, j \in 1..Cardinality(rows) : i < j => q[i].price <= q[j].price}

\* An exists() that finds rows where there are none.
exists_Always(rows) == TRUE

\* QuerySet.exists()
exists(rows) == rows # {}

\* The lookup of the product: by id when product_id is sent, else by name,
\* exact first and then by substring
ResolveProduct(product_id, product_name) ==
    IF ~Falsy(product_id)
    THEN first({p \in products : p.id = ToInt(Val(product_id))})
    ELSE LET exact == {p \in products : iexact(p.name, Val(product_name))}
         IN IF exact # {} THEN first(exact)
            ELSE first({p \in products : icontains(p.name, Val(product_name))})

\* {'store': option.store.name, 'price': str(option.price)}
Option(row) == [store |-> StoreNames[row.store], price |-> DecimalStr(row.price)]

\* The responses for a resolved product
Comparison(product) ==
    LET rows == {r \in prices : r.product = product.id}
    IN IF ~exists(rows)
       THEN {[status |-> HTTP_200_OK, detail |-> "",
              body |-> Some([product |-> product.id, prices |-> <<>>,
                             stores_available |-> 0,
                             best_option |-> None,
                             most_expensive_option |-> None,
                             savings_vs_most_expensive |-> None])]}
       ELSE IF rows = {}
       THEN {ErrorResponse(HTTP_500_INTERNAL_SERVER_ERROR, "AttributeError")}
       ELSE {[status |-> HTTP_200_OK, detail |-> "",
              body |-> Some([product |-> product.id, prices |-> listed,
                             stores_available |-> Cardinality(rows),
                             best_option |-> Some(Option(best_option)),
                             most_expensive_option |->
                                 Some(Option(most_expensive_option)),
                             savings_vs_most_expensive |->
                                 Some(DecimalStr(most_expensive_option.price
                                                   - best_option.price))])] :
               listed \in order_by_price(rows),
               best_option \in {q[1] : q \in order_by_price(rows)},
               most_expensive_option \in
                   {q[Len(q)] : q \in order_by_price(rows)}}

\* The responses of the view
compare_prices(product_id, product_name) ==
    IF Falsy(product_id) /\ Falsy(product_name)
    THEN {ErrorResponse(HTTP_400_BAD_REQUEST, "MissingProductQuery")}
    ELSE UNION {IF product = None
                THEN {ErrorResponse(HTTP_404_NOT_FOUND, "ProductNotFound")}
                ELSE Comparison(Val(product)) :
                product \in ResolveProduct(product_id, product_name)}

ProductIdParams ==
    {None, Some(<<>>), Some(<<"1">>), Some(<<"0", "2">>), Some(<<"9">>)}
ProductNameParams ==
    {None, Some(<<>>), Some(<<"a", "B">>), Some(<<"b">>), Some(<<"b", "b">>)}
CmpNames == {<<"A", "b">>, <<"a", "b">>, <<"B", "a", "b">>}
CmpPrices == {105, 180, 225}

\* The price rows of a product: each store's price, or none
PriceTables ==
    {[product |-> 1, of |-> f] : f \in [DOMAIN StoreNames -> {None} \cup {Some(a) : a \in CmpPrices}]}

CmpIdle == [pc |-> "idle", product_id |-> None, product |-> None, resp |-> None]

CmpGet ==
    /\ cmp.pc = "idle"
    /\ \E product_id \in ProductIdParams, product_name \in ProductNameParams :
       \E resp \in compare_prices(product_id, product_name) :
         cmp' = [pc |-> "done", product_id |-> product_id,
                 product |-> product_name, resp |-> Some(resp)]
    /\ UNCHANGED <<db, th, adm, started, ean, fs, ofr, others>>

\* Product 1 under any name with any prices at the three stores, product 2
\* under any name with one price.
CmpInit ==
    /\ \E n1 \in CmpNames, n2 \in CmpNames :
         products = {[id |-> 1, category |-> 1, name |-> n1, brand |-> "",
                      description |-> ""],
                     [id |-> 2, category |-> 1, name |-> n2, brand |-> "b",
                      description |-> ""]}
    /\ \E t \in PriceTables :
         prices = {[id |-> s, product |-> 1, store |-> s, price |-> Val(t.of[s])] :
                      s \in {s \in DOMAIN StoreNames : t.of[s] # None}}
                  \cup {[id |-> 4, product |-> 2, store |-> 1, price |-> 180]}
    /\ codes = {}
    /\ th = [t \in Threads |-> Idle]
    /\ adm = AdminIdle
    /\ started = 0
    /\ cmp = CmpIdle
    /\ ean = None /\ fs = None /\ ofr = None /\ dsc = None /\ bst = None /\ adr = None

CmpNext == CmpGet

CmpSpec == CmpInit /\ [][CmpNext]_vars

CmpResp == Val(cmp.resp)
CmpBody == Val(CmpResp.body)
\* The request was answered with a comparison.
Compared == cmp.pc = "done" /\ CmpResp.body # None
ComparedRows == {r \in prices : r.product = CmpBody.product}
\* The amount a text of units and decimals stands for
Amount(text) == text[1] * 100 + text[2]
Cheapest == CHOOSE a \in {r.price : r \in ComparedRows} :
                \A r \in ComparedRows : a <= r.price
Dearest == CHOOSE a \in {r.price : r \in ComparedRows} :
                \A r \in ComparedRows : a >= r.price

\* C16: for a product with at least one price, compare_prices lists all its
\* price rows in ascending order of price, names as best_option a row of the
\* minimum price and as most_expensive_option a row of the maximum price,
\* counts the rows in stores_available, and gives savings = maximum -
\* minimum, which is not negative and is 0 for a single price.
C16_Ranking ==
    Compared /\ ComparedRows # {} =>
        LET listed == CmpBody.prices
            best == Val(CmpBody.best_option)
            worst == Val(CmpBody.most_expensive_option)
            savings == Amount(Val(CmpBody.savings_vs_most_expensive))
        IN /\ Len(listed) = Cardinality(ComparedRows)
           /\ {listed[i] : i \in 1..Len(listed)} = ComparedRows
           /\ \A i \in 1..(Len(listed) - 1) : listed[i].price <= listed[i + 1].price
           /\ CmpBody.stores_available = Cardinality(ComparedRows)
           /\ \E r \in ComparedRows :
                /\ r.price = Cheapest
                /\ best = [store |-> StoreNames[r.store], price |-> DecimalStr(r.price)]
           /\ \E r \in ComparedRows :
                /\ r.price = Dearest
                /\ worst = [store |-> StoreNames[r.store], price |-> DecimalStr(r.price)]
           /\ Amount(best.price) = Cheapest /\ Amount(worst.price) = Dearest
           /\ savings = Dearest - Cheapest
           /\ savings >= 0
           /\ Cardinality(ComparedRows) = 1 => savings = 0

C16_Witness ==
    /\ Compared
    /\ CmpBody.stores_available = 3
    /\ CmpBody.best_option = Some([store |-> "Toti", price |-> <<1, 5>>])
    /\ CmpBody.most_expensive_option = Some([store |-> "Tia", price |-> <<2, 25>>])
    /\ CmpBody.savings_vs_most_expensive = Some(<<1, 20>>)

\* The supplied product_id, or the supplied name, names a product.
IdResolves ==
    /\ ~Falsy(cmp.product_id)
    /\ \E p \in products : p.id = ToInt(Val(cmp.product_id))
NameResolves ==
    /\ ~Falsy(cmp.product)
    /\ \E p \in products : icontains(p.name, Val(cmp.product))

\* C17: for a product that resolves and has no price row, compare_prices
\* does not fail: it answers 200 with an empty prices list,
\* stores_available = 0 and null best_option and most_expensive_option; every
\* request whose product_id resolves, or that sends no product_id and a name
\* that resolves, is answered with a comparison.
C17_NoPrices ==
    cmp.pc = "done" =>
        /\ CmpResp.status \in {HTTP_200_OK, HTTP_400_BAD_REQUEST, HTTP_404_NOT_FOUND}
        /\ IdResolves => Compared /\ CmpBody.product = ToInt(Val(cmp.product_id))
        /\ Falsy(cmp.product_id) /\ NameResolves => Compared
        /\ Compared /\ ComparedRows = {} =>
             /\ CmpResp.status = HTTP_200_OK
             /\ CmpBody.prices = <<>>
             /\ CmpBody.stores_available = 0
             /\ CmpBody.best_option = None
             /\ CmpBody.most_expensive_option = None

C17_Witness ==
    /\ Compared
    /\ ComparedRows = {}
    /\ CmpBody.best_option = None
    /\ Falsy(cmp.product_id)

\* C18: compare_prices answers ProductNotFound only when neither the
\* supplied product_id nor the supplied name resolves; when either resolves
\* it answers a comparison.
C18_NotFoundOnlyWhenNeitherResolves ==
    cmp.pc = "done" =>
        /\ CmpResp.detail = "ProductNotFound" => ~IdResolves /\ ~NameResolves
        /\ IdResolves \/ NameResolves => CmpResp.body # None

(***************************************************************************)
(* OfferListView.get (list_offers).  The view reads the clock when it      *)
(* builds the active filter; the payload's is_active reads it again when   *)
(* the offers are serialized.                                              *)
(***************************************************************************)
\* str.strip(): leading and trailing whitespace removed
RECURSIVE strip(_)
strip(text) ==
    IF text = <<>> THEN text
    ELSE IF Head(text) = " " THEN strip(Tail(text))
    ELSE IF text[Len(text)] = " " THEN strip(SubSeq(text, 1, Len(text) - 1))
    ELSE text

\* {'true', '1', 'yes', 'on'}
TRUE_VALUES == {<<"t", "r", "u", "e">>, <<"1">>, <<"y", "e", "s">>, <<"o", "n">>}
\* {'false', '0', 'no', 'off'}
FALSE_VALUES == {<<"f", "a", "l", "s", "e">>, <<"0">>, <<"n", "o">>, <<"o", "f", "f">>}

\* A default that lists every offer.
ActiveParam_DefaultFalse(active) ==
    Lower(strip(IF Falsy(active) THEN <<"f", "a", "l", "s", "e">> ELSE Val(active)))

\* (request.query_params.get('active') or 'true').strip().lower()
ActiveParam(active) ==
    Lower(strip(IF Falsy(active) THEN <<"t", "r", "u", "e">> ELSE Val(active)))

\* A window that leaves out the instant ends_at.
InWindow_EndExclusive(offer, now) == offer.starts_at <= now /\ offer.ends_at > now

\* filter(starts_at__lte=now, ends_at__gte=now)
InWindow(offer, now) == offer.starts_at <= now /\ offer.ends_at >= now

\* Offer.is_active read at the instant now
is_active(offer, now) == offer.starts_at <= now /\ now <= offer.ends_at

\* The product an offer is of
ProductOf(offer) == CHOOSE p \in products : p.id = offer.product

\* Filters that add to one another: an offer passing any of them is listed.
Filtered_AnyOf(offers, params, now) ==
    {o \in offers :
        /\ ActiveParam(params.active) \in TRUE_VALUES => InWindow(o, now)
        /\ \/ Falsy(params.store_id) /\ Falsy(params.product_id)
              /\ Falsy(params.category_id) /\ Falsy(params.search)
           \/ ~Falsy(params.store_id) /\ o.store = ToInt(Val(params.store_id))
           \/ ~Falsy(params.product_id) /\ o.product = ToInt(Val(params.product_id))
           \/ ~Falsy(params.category_id)
              /\ ProductOf(o).category = ToInt(Val(params.category_id))
           \/ ~Falsy(params.search) /\ icontains(ProductOf(o).name, Val(params.search))}

\* The filters of the request on the queryset
Filtered(offers, params, now) ==
    {o \in offers :
        /\ ActiveParam(params.active) \in TRUE_VALUES => InWindow(o, now)
        /\ ~Falsy(params.store_id) => o.store = ToInt(Val(params.store_id))
        /\ ~Falsy(params.product_id) => o.product = ToInt(Val(params.product_id))
        /\ ~Falsy(params.category_id) =>
              ProductOf(o).category = ToInt(Val(params.category_id))
        /\ ~Falsy(params.search) => icontains(ProductOf(o).name, Val(params.search))}

Times == 1..3
ActiveInputs ==
    {None, Some(<<>>), Some(<<" ">>),
     Some(<<"t", "r", "u", "e">>), Some(<<" ", "Y", "e", "s", " ">>),
     Some(<<"1">>), Some(<<"O", "N">>),
     Some(<<"f", "a", "l", "s", "e">>), Some(<<"0">>), Some(<<"N", "o", " ">>),
     Some(<<"o", "f", "f">>),
     Some(<<"2">>), Some(<<"t", "r", "u">>)}
OfferParams ==
    [active : ActiveInputs,
     store_id : {None, Some(<<"2">>)},
     product_id : {None, Some(<<"1">>)},
     category_id : {None, Some(<<"1">>)},
     search : {None, Some(<<"B">>)}]

\* Offer 1 with any window, with or without an offer 2 of any window; a
\* window can end before it starts.
OfferTables ==
    LET Offer1 == {[id |-> 1, product |-> 1, store |-> 1, starts_at |-> a,
                    ends_at |-> b] : a \in Times, b \in Times}
        Offer2 == {[id |-> 2, product |-> 2, store |-> 2, starts_at |-> a,
                    ends_at |-> b] : a \in Times, b \in Times}
    IN {{o} : o \in Offer1} \cup {{o1, o2} : o1 \in Offer1, o2 \in Offer2}

OfrIdle(offers) ==
    [offers |-> offers, clock |-> 1, pc |-> "idle", params |-> None,
     now |-> 0, resp |-> None]

\* The active parameter is read and, for a true value, the clock
OfrFilter ==
    /\ ofr.pc = "idle"
    /\ \E params \in OfferParams :
         LET active_param == ActiveParam(params.active)
             req == [ofr EXCEPT !.params = Some(params)]
         IN ofr' = IF active_param \in TRUE_VALUES
                   THEN [req EXCEPT !.pc = "serialize", !.now = ofr.clock]
                   ELSE IF active_param \in FALSE_VALUES
                   THEN [req EXCEPT !.pc = "serialize"]
                   ELSE [req EXCEPT !.pc = "done", !.resp = Some(
                           ErrorResponse(HTTP_400_BAD_REQUEST, "InvalidFilterValue"))]
    /\ UNCHANGED <<db, th, adm, started, ean, fs, cmp, others>>

\* The other filters, the query and the serialization of its rows
OfrRespond ==
    /\ ofr.pc = "serialize"
    /\ \E rows \in Orderings(Filtered(ofr.offers, Val(ofr.params), ofr.now)) :
         LET serialized ==
                 [i \in 1..Len(rows) |->
                     [id |-> rows[i].id,
                      is_active |-> is_active(rows[i], ofr.clock)]]
         IN ofr' = [ofr EXCEPT !.pc = "done", !.resp = Some(
                      [status |-> HTTP_200_OK, detail |-> "",
                       body |-> Some([count |-> Len(serialized),
                                      offers |-> serialized,
                                      results |-> serialized])])]
    /\ UNCHANGED <<db, th, adm, started, ean, fs, cmp, others>>

\* Time passes.
OfrTick ==
    /\ ofr.pc # "done"
    /\ ofr.clock + 1 \in Times
    /\ ofr' = [ofr EXCEPT !.clock = @ + 1]
    /\ UNCHANGED <<db, th, adm, started, ean, fs, cmp, others>>

OfrInit ==
    /\ products = {[id |-> 1, category |-> 1, name |-> <<"A", "b">>,
                    brand |-> "", description |-> ""],
                   [id |-> 2, category |-> 2, name |-> <<"a">>,
                    brand |-> "", description |-> ""]}
    /\ codes = {} /\ prices = {}
    /\ th = [t \in Threads |-> Idle]
    /\ adm = AdminIdle
    /\ started = 0
    /\ \E offers \in OfferTables : ofr = OfrIdle(offers)
    /\ ean = None /\ fs = None /\ cmp = None /\ dsc = None /\ bst = None /\ adr = None

OfrNext == OfrFilter \/ OfrRespond \/ OfrTick

OfrSpec == OfrInit /\ [][OfrNext]_vars

OfrResp == Val(ofr.resp)
\* The request was answered with a list of offers.
Listed == ofr.pc = "done" /\ OfrResp.body # None
OfrParams == Val(ofr.params)
ListedOffers == Val(OfrResp.body).offers
\* The offers the response lists
Returned ==
    {o \in ofr.offers : \E i \in 1..Len(ListedOffers) : ListedOffers[i].id = o.id}
NoOtherFilter ==
    /\ OfrParams.store_id = None /\ OfrParams.product_id = None
    /\ OfrParams.category_id = None /\ OfrParams.search = None
\* The values of active sent, by what they read as once trimmed and
\* lower-cased
SentTrue ==
    {Some(<<"t", "r", "u", "e">>), Some(<<" ", "Y", "e", "s", " ">>),
     Some(<<"1">>), Some(<<"O", "N">>)}
SentFalse ==
    {Some(<<"f", "a", "l", "s", "e">>), Some(<<"0">>), Some(<<"N", "o", " ">>),
     Some(<<"o", "f", "f">>)}
SentNothing == {None, Some(<<>>)}
SentOther == {Some(<<" ">>), Some(<<"2">>), Some(<<"t", "r", "u">>)}

\* C19: with no other filter, list_offers with a true or absent active
\* returns exactly the offers with starts_at <= now <= ends_at, now the
\* instant the view read, and with a false active every offer; count is the
\* number of offers listed, each once.
C19_ActiveWindow ==
    Listed /\ NoOtherFilter =>
        /\ OfrParams.active \in SentTrue \cup SentNothing =>
             Returned = {o \in ofr.offers :
                           o.starts_at <= ofr.now /\ ofr.now <= o.ends_at}
        /\ OfrParams.active \in SentFalse => Returned = ofr.offers
        /\ Val(OfrResp.body).count = Len(ListedOffers)
        /\ Val(OfrResp.body).count = Cardinality(Returned)

C19_Witness ==
    /\ Listed /\ NoOtherFilter
    /\ OfrParams.active = None
    /\ \E o1, o2 \in ofr.offers :
         /\ o1 \in Returned /\ o1.ends_at = ofr.now /\ o1.starts_at < ofr.now
         /\ o2 \notin Returned /\ o2.ends_at < ofr.now

\* C20: an active value that, trimmed and lower-cased, is none of true, 1,
\* yes, on, false, 0, no, off is answered 400 InvalidFilterValue with no
\* offers; the eight values are accepted; an absent or empty active lists
\* what active = true lists.
C20_ActiveValues ==
    ofr.pc = "done" =>
        /\ OfrParams.active \in SentOther =>
             /\ OfrResp.status = HTTP_400_BAD_REQUEST
             /\ OfrResp.detail = "InvalidFilterValue"
             /\ OfrResp.body = None
        /\ OfrParams.active \notin SentOther =>
             Listed /\ OfrResp.status = HTTP_200_OK
        /\ OfrParams.active \in SentNothing =>
             Returned = Filtered(ofr.offers,
                                 [OfrParams EXCEPT !.active = Some(<<"t", "r", "u", "e">>)],
                                 ofr.now)

C20_Witness ==
    /\ ofr.pc = "done"
    /\ OfrParams.active = Some(<<" ">>)
    /\ OfrResp.detail = "InvalidFilterValue"

\* The request's parameters with the filter named left out
Without(params, filter) == [params EXCEPT ![filter] = None]

\* What each filter sent asks of an offer, stated on the stored rows
StoreAsked(o) == OfrParams.store_id = Some(<<"2">>) => o.store = 2
ProductAsked(o) == OfrParams.product_id = Some(<<"1">>) => o.product = 1
CategoryAsked(o) ==
    OfrParams.category_id = Some(<<"1">>) =>
        \E p \in products : p.id = o.product /\ p.category = 1
SearchAsked(o) ==
    OfrParams.search = Some(<<"B">>) =>
        \E p \in products :
            /\ p.id = o.product
            /\ \E i \in 1..Len(p.name) : p.name[i] \in {"b", "B"}
ActiveAsked(o) ==
    OfrParams.active \in SentTrue \cup SentNothing =>
        o.starts_at <= ofr.now /\ ofr.now <= o.ends_at

\* C21: list_offers returns exactly the offers that satisfy every filter
\* sent (store, product, category, search on the product's name, active),
\* and what it returns is within what the same request returns with any one
\* of the four filters left out.
C21_FiltersConjunctive ==
    Listed =>
        /\ Returned = {o \in ofr.offers :
                         /\ ActiveAsked(o) /\ StoreAsked(o) /\ ProductAsked(o)
                         /\ CategoryAsked(o) /\ SearchAsked(o)}
        /\ \A filter \in {"store_id", "product_id", "category_id", "search"} :
             Returned \subseteq Filtered(ofr.offers, Without(OfrParams, filter), ofr.now)

\* A store and a product filter each satisfied by one of two running
\* offers, and by no offer together.
C21_Witness ==
    /\ Listed
    /\ OfrParams.active = None
    /\ OfrParams.store_id # None /\ OfrParams.product_id # None
    /\ \E o1, o2 \in ofr.offers :
         /\ o1.product = 1 /\ o2.store = 2
         /\ ActiveAsked(o1) /\ ActiveAsked(o2)
    /\ Returned = {}

(***************************************************************************)
(* discount_percent of an offer, as OfferSerializer.get_discount_percent   *)
(* and OfferAdmin.discount_percent render it.  A price is an amount in     *)
(* cents, not negative.  The division is decimal's: the quotient is        *)
(* rounded to the context's 28 significant digits, ties to even; a decimal *)
(* is its sign, its integer part and the digits after the point.           *)
(***************************************************************************)
\* decimal.getcontext().prec
PREC == 28

\* The digits of n, none for 0
RECURSIVE IntDigits(_)
IntDigits(n) == IF n = 0 THEN <<>> ELSE Append(IntDigits(n \div 10), n % 10)

\* Long division of rem by b, rem < b: the digits after the point up to
\* `left` more significant digits, and the remainder left
RECURSIVE FracDigits(_, _, _, _)
FracDigits(rem, b, left, significant) ==
    IF left = 0 \/ rem = 0 THEN [digits |-> <<>>, rem |-> rem]
    ELSE LET d == (rem * 10) \div b
             sig == significant \/ d # 0
             rest == FracDigits((rem * 10) % b, b,
                                IF sig THEN left - 1 ELSE left, sig)
         IN [digits |-> <<d>> \o rest.digits, rem |-> rest.rem]

\* One unit added in the last place
RECURSIVE Increment(_)
Increment(ds) ==
    IF ds = <<>> THEN [digits |-> <<>>, carry |-> 1]
    ELSE LET last == ds[Len(ds)]
             front == SubSeq(ds, 1, Len(ds) - 1)
         IN IF last < 9 THEN [digits |-> Append(front, last + 1), carry |-> 0]
            ELSE LET inc == Increment(front)
                 IN [digits |-> Append(inc.digits, 0), carry |-> inc.carry]

\* Decimal a / b for amounts a and b > 0: PREC significant digits,
\* ROUND_HALF_EVEN on what the division leaves
Divide(a, b) ==
    LET n == IF a < 0 THEN -a ELSE a
        whole == n \div b
        fd == FracDigits(n % b, b, PREC - Len(IntDigits(whole)), whole # 0)
        up == \/ 2 * fd.rem > b
              \/ 2 * fd.rem = b /\ fd.digits[Len(fd.digits)] % 2 = 1
        inc == IF fd.rem # 0 /\ up THEN Increment(fd.digits)
               ELSE [digits |-> fd.digits, carry |-> 0]
    IN [negative |-> a < 0, int |-> whole + inc.carry, frac |-> inc.digits]

Digit(ds, i) == IF i <= Len(ds) THEN ds[i] ELSE 0

\* Decimal * 100: the point moves two places
Times100(d) ==
    [d EXCEPT !.int = d.int * 100 + Digit(d.frac, 1) * 10 + Digit(d.frac, 2),
              !.frac = SubSeq(d.frac, 3, Len(d.frac))]

\* The text of hundredths, with its sign
Text2(negative, hundredths) ==
    [sign |-> IF negative THEN "-" ELSE "",
     units |-> hundredths \div 100, decimals |-> hundredths % 100]

\* Two decimals with the digits beyond them cut off.
Format2f_Truncated(d) ==
    Text2(d.negative, d.int * 100 + Digit(d.frac, 1) * 10 + Digit(d.frac, 2))

\* f'{d:.2f}' of a decimal: two decimals, ties to even, the sign kept
Format2f(d) ==
    LET kept == d.int * 100 + Digit(d.frac, 1) * 10 + Digit(d.frac, 2)
        rest == SubSeq(d.frac, 3, Len(d.frac))
        tail == \E i \in 2..Len(rest) : rest[i] # 0
        up == /\ rest # <<>>
              /\ \/ rest[1] > 5
                 \/ rest[1] = 5 /\ tail
                 \/ rest[1] = 5 /\ ~tail /\ kept % 2 = 1
    IN Text2(d.negative, IF up THEN kept + 1 ELSE kept)

\* OfferSerializer.get_discount_percent
get_discount_percent(obj) ==
    IF obj.normal_price = 0 THEN Text2(FALSE, 0)
    ELSE LET discount == Times100(Divide(obj.normal_price - obj.offer_price,
                                         obj.normal_price))
         IN Format2f(discount)

\* OfferAdmin.discount_percent
discount_percent(obj) ==
    IF obj.normal_price = 0 THEN [text |-> Text2(FALSE, 0), suffix |-> "%"]
    ELSE LET discount == Times100(Divide(obj.normal_price - obj.offer_price,
                                         obj.normal_price))
         IN [text |-> Format2f(discount), suffix |-> "%"]

NormalPrices == {0, 1, 3, 7, 32, 250, 260, 999, 30000}
OfferPrices == {0, 1, 2, 29, 31, 199, 220, 250, 999, 30001}

\* The offer is serialized for the API.
DscSerialize ==
    /\ dsc # None /\ Val(dsc).api = None
    /\ dsc' = Some([Val(dsc) EXCEPT !.api = Some(get_discount_percent(Val(dsc).obj))])
    /\ UNCHANGED <<db, th, adm, started, ean, fs, cmp, ofr, bst, adr>>

\* The offer is listed in the admin.
DscAdminList ==
    /\ dsc # None /\ Val(dsc).admin = None
    /\ dsc' = Some([Val(dsc) EXCEPT !.admin = Some(discount_percent(Val(dsc).obj))])
    /\ UNCHANGED <<db, th, adm, started, ean, fs, cmp, ofr, bst, adr>>

DscInit ==
    /\ ScanInit
    /\ ean = None /\ fs = None /\ cmp = None /\ ofr = None /\ bst = None /\ adr = None
    /\ \E n \in NormalPrices, o \in OfferPrices :
         dsc = Some([obj |-> [normal_price |-> n, offer_price |-> o],
                     api |-> None, admin |-> None])

DscNext == DscSerialize \/ DscAdminList

DscSpec == DscInit /\ [][DscNext]_vars

DscObj == Val(dsc).obj
\* The amount a text of two decimals reads as, in hundredths
Hundredths(text) ==
    (IF text.sign = "-" THEN -1 ELSE 1) * (text.units * 100 + text.decimals)
Distance(a, b) == IF a < b THEN b - a ELSE a - b

\* The text is the discount of the offer: 0.00 for a normal price of 0,
\* otherwise the two-decimal amount nearest to
\* (normal_price - offer_price) / normal_price * 100
IsDiscountOf(text, obj) ==
    /\ text.units >= 0 /\ text.decimals \in 0..99
    /\ obj.normal_price = 0 => text = [sign |-> "", units |-> 0, decimals |-> 0]
    /\ obj.normal_price # 0 =>
         /\ 2 * Distance(Hundredths(text) * obj.normal_price,
                         10000 * (obj.normal_price - obj.offer_price))
              <= obj.normal_price
         /\ text.sign = "-" => obj.offer_price > obj.normal_price
    /\ obj.normal_price = 250 /\ obj.offer_price = 199 =>
         text = [sign |-> "", units |-> 20, decimals |-> 40]

\* C22: discount_percent is 0.00 when normal_price = 0 and otherwise
\* ((normal_price - offer_price) / normal_price) x 100 rounded to the
\* nearest amount of 2 decimals, 20.40 for 2.50 and 1.99, in the API
\* payload and, followed by %, in the admin list.
C22_DiscountPercent ==
    dsc # None =>
        /\ Val(dsc).api # None => IsDiscountOf(Val(Val(dsc).api), DscObj)
        /\ Val(dsc).admin # None =>
             /\ IsDiscountOf(Val(Val(dsc).admin).text, DscObj)
             /\ Val(Val(dsc).admin).suffix = "%"

\* 0.02 off 0.03 is 66.666...: rendered 66.67
C22_Witness ==
    /\ dsc # None /\ Val(dsc).api # None /\ Val(dsc).admin # None
    /\ DscObj = [normal_price |-> 3, offer_price |-> 1]
    /\ Val(Val(dsc).api) = [sign |-> "", units |-> 66, decimals |-> 67]

(***************************************************************************)
(* Properties of the scan endpoint, continued                              *)
(***************************************************************************)
\* C23: every scan answered with its payload has matched = not
\* code_created and product_created only with code_created, is answered 201
\* exactly when code_created and 200 exactly when matched; the two flags
\* tell what the request inserted, and no other answer is a 200 or a 201.
C23_ScanFlags ==
    \A t \in Threads :
        /\ Ok(t) =>
             /\ Body(t).matched = ~Body(t).code_created
             /\ Body(t).product_created => Body(t).code_created
             /\ Resp(t).status = HTTP_201_CREATED <=> Body(t).code_created
             /\ Resp(t).status = HTTP_200_OK <=> Body(t).matched
             /\ Body(t).code_created <=> "code" \in th[t].wrote
             /\ Body(t).product_created <=> "product" \in th[t].wrote
        /\ Done(t) /\ Resp(t).status \in {HTTP_200_OK, HTTP_201_CREATED} => Ok(t)

\* A scan that created its code and its product (201), and a scan that
\* matched that code (200)
C23_Witness ==
    \E t1, t2 \in Threads :
        /\ Ok(t1) /\ Resp(t1).status = HTTP_201_CREATED
        /\ Body(t1).code_created /\ Body(t1).product_created
        /\ Ok(t2) /\ Resp(t2).status = HTTP_200_OK /\ Body(t2).matched
        /\ th[t2].code = th[t1].code

\* C24: every offer listed with a true or absent active is reported with
\* is_active = true in the payload.
C24_ListedActiveReportedActive ==
    Listed /\ OfrParams.active \in SentTrue \cup SentNothing =>
        \A i \in 1..Len(ListedOffers) : ListedOffers[i].is_active

\* A catalog whose product a scan can name: category 1, n1, no brand, with a
\* description no request sends
AttachInit ==
    /\ products = {[id |-> 1, category |-> 1, name |-> "n1", brand |-> "",
                    description |-> "d0"]}
    /\ codes = {}
    /\ prices = {[id |-> 1, product |-> 1, store |-> 1, price |-> 225]}
    /\ th = [t \in Threads |-> Idle]
    /\ adm = AdminIdle
    /\ started = 0
    /\ ean = None /\ fs = None /\ cmp = None /\ ofr = None /\ dsc = None /\ bst = None /\ adr = None

AttachSpec == AttachInit /\ [][Next]_vars

\* The product the request's (category, name, brand) names, brand '' when
\* none was sent
Named1(args, p) ==
    /\ args.category_id = Some(p.category)
    /\ p.name = args.name /\ p.brand = args.brand

\* get_or_create on a triple in the catalog resolves to its product and
\* writes nothing.
C25_ResolvesExisting ==
    \A t \in Threads :
        th[t].pc = "product_get" /\ Steps(t) =>
            \A p \in products :
                Named1(Val(th'[t].args), p) =>
                    /\ th'[t].pc = "code_create"
                    /\ th'[t].product = Some(p.id)
                    /\ ~th'[t].product_created
                    /\ UNCHANGED db

\* No step changes or removes a product row.
C25_ProductRowsKept == \A p \in products : p \in products'

\* The code row inserted is bound to the resolved product, with the type
\* sent or barcode.
C25_CodeInserted ==
    \A t \in Threads :
        th[t].pc = "code_create" /\ Steps(t) /\ codes' # codes =>
            \E r \in codes' :
                /\ codes' = codes \cup {r} /\ r \notin codes
                /\ r.code = th[t].code /\ Some(r.product) = th[t].product
                /\ r.code_type = IF th'[t].sent_type = None THEN "barcode"
                                 ELSE Val(th'[t].sent_type)
                /\ th'[t].code_created /\ UNCHANGED <<products, prices>>

\* The answer of a scan that attached its code to a product it did not
\* create
C25_AttachedAnswer ==
    \A t \in Threads :
        Ok(t) /\ Missed(t) /\ "product" \notin th[t].wrote =>
            /\ Resp(t).status = HTTP_201_CREATED
            /\ ~Body(t).product_created /\ Body(t).code_created
            /\ ~Body(t).matched
            /\ \E p \in products :
                 /\ {q \in products : Named1(Val(th[t].args), q)} = {p}
                 /\ Body(t).product = p.id
                 /\ \E r \in codes :
                      /\ CodeRows(th[t].code) = {r}
                      /\ r.product = p.id /\ r.id = Body(t).scanned_code

\* C25: a scan of an unknown code whose (category, name, brand), brand ''
\* when absent, names a product of the catalog resolves to that product
\* without writing; the code row it then inserts is bound to that product,
\* with code_type barcode when none was sent; it answers 201 with
\* product_created = false and code_created = true; the triple still names
\* one product and no product row is ever changed.
C25_AttachToExisting ==
    /\ []C25_AttachedAnswer
    /\ [][C25_ResolvesExisting /\ C25_ProductRowsKept /\ C25_CodeInserted]_vars

\* Code c1 attached, with no brand and no code_type sent, to the product of
\* the initial catalog, its description still d0
C25_Witness ==
    \E t \in Threads :
        /\ Ok(t) /\ Missed(t) /\ ~Body(t).product_created /\ Body(t).code_created
        /\ Val(th[t].args).brand = "" /\ th[t].sent_type = None
        /\ products = {[id |-> 1, category |-> 1, name |-> "n1", brand |-> "",
                        description |-> "d0"]}
        /\ \E r \in codes : r.code = th[t].code /\ r.product = 1
                            /\ r.code_type = "barcode"

(***************************************************************************)
(* Properties of compare_prices, continued                                 *)
(***************************************************************************)
\* The place of a store's name in alphabetical order
NameRank(store) ==
    Cardinality({s \in DOMAIN StoreNames :
                    \/ StoreNames[s] = "Aki" /\ StoreNames[store] # "Aki"
                    \/ StoreNames[s] = "Tia" /\ StoreNames[store] = "Toti"})

\* The rows listed are in order of the key wherever their prices are equal,
\* and the options are the first and the last of the list.
StableBy(key(_)) ==
    LET listed == CmpBody.prices
    IN /\ \A i \in 1..(Len(listed) - 1) :
            listed[i].price = listed[i + 1].price => key(listed[i]) < key(listed[i + 1])
       /\ Val(CmpBody.best_option).store = StoreNames[listed[1].store]
       /\ Val(CmpBody.most_expensive_option).store
             = StoreNames[listed[Len(listed)].store]

InsertionKey(row) == row.id
StoreNameKey(row) == NameRank(row.store)

\* C26: a comparison over rows of equal prices does not fail, lists the
\* rows of one price in insertion order, or in the order of their stores'
\* names, and takes best_option and most_expensive_option from the ends of
\* that list, so that the stored rows determine the stores chosen.
C26_TiesStable ==
    /\ cmp.pc = "done" /\ IdResolves => Compared
    /\ Compared /\ ComparedRows # {} =>
         StableBy(InsertionKey) \/ StableBy(StoreNameKey)

(***************************************************************************)
(* Properties of the admin batch, continued                                *)
(***************************************************************************)
\* The codes of the validated submission waiting to be saved
BatchCodes == {Val(adm.codes[i]) : i \in 1..Len(adm.codes)}

\* C27: the save of a batch whose codes were all absent from storage when
\* the batch was validated meets no uniqueness violation, whatever was
\* inserted since, and stores each of its codes once.
C27_SaveStillUnique ==
    [][adm.pc = "save" /\ adm'.pc = "done" /\ BatchCodes \cap adm.seen = {} =>
          /\ adm'.result = "saved"
          /\ \A c \in BatchCodes : Cardinality({r \in codes' : r.code = c}) = 1]_vars

\* The price rows a step added, removed or changed
PricesTouched == (prices' \ prices) \cup (prices \ prices')

\* C28: a scan whose code is in storage reads none of category_id, name,
\* brand, description and code_type; from the lookup that finds the code to
\* the answer, its steps leave every product row and every code row as they
\* were, the code still bound to the product it resolved to, and touch no
\* price row but that of (owning product, supplied store).
C28_MatchedFrame ==
    [][\A t \in Threads :
          Steps(t) /\ (th[t].hit \/ th'[t].hit) =>
              /\ products' = products /\ codes' = codes
              /\ th'[t].args = None /\ th'[t].sent_type = None
              /\ th'[t].hit =>
                   \E c \in codes : /\ c.code = th'[t].code
                                    /\ Some(c.product) = th'[t].product
              /\ \A r \in PricesTouched :
                   /\ Some(r.product) = th[t].product
                   /\ Some(r.store) = th[t].store_id]_vars

\* A code the admin stored for product 1 is scanned with a price for store
\* 1: the price row of (1, 1) is rewritten, the product and the code row are
\* as they were.
C28_Witness ==
    \E t \in Threads :
        /\ Ok(t) /\ th[t].hit /\ Body(t).price_updated
        /\ Body(t).product = 1
        /\ \E p \in products : p.id = 1 /\ p.name = "n0" /\ p.description = "d0"
        /\ \E c \in codes : c.code = th[t].code /\ c.product = 1
                            /\ c.code_type = "barcode"
        /\ \E r \in prices : r.product = 1 /\ r.store = 1 /\ r.price = 105

(***************************************************************************)
(* The best price of a product as the three endpoints report it:           *)
(* ProductListView.get, the payload of ProductScanView.post for a code in  *)
(* storage, and ProductPriceComparisonView.get.  Each answer is read from  *)
(* the price rows as they are when its query runs; the answers kept are    *)
(* those read since the last write to the price rows.  The order of the   *)
(* products in the list is not modelled.                                   *)
(***************************************************************************)
\* A prefetch that ignores the ordering of ProductPrice.
prefetched_Unordered(rows) == Orderings(rows)

\* list(product.prices.all()) over prefetch_related('prices__store'): the
\* rows in Meta.ordering = ['price']
prefetched(rows) == order_by_price(rows)

\* What both payloads say of the best option
BestFields(best_option) ==
    [best_option |-> IF best_option = None THEN None
                     ELSE Some(Option(Val(best_option))),
     best_price |-> IF best_option = None THEN None
                    ELSE Some(DecimalStr(Val(best_option).price))]

\* The entries ProductListView.get can build for a product
ListPayloads(product) ==
    {[product |-> product.id, prices |-> q, stores_available |-> Len(q),
      best |-> BestFields(IF q = <<>> THEN None ELSE Some(q[1]))] :
        q \in prefetched({r \in prices : r.product = product.id})}

\* ProductListView.get: the entries of the products that pass the filters
ProductList(category_id, search) ==
    LET queryset ==
            {p \in products :
                /\ ~Falsy(category_id) => p.category = ToInt(Val(category_id))
                /\ ~Falsy(search) => icontains(p.name, Val(search))}
    IN {payloads \in SUBSET UNION {ListPayloads(p) : p \in queryset} :
          \A p \in queryset :
              Cardinality({e \in payloads : e.product = p.id}) = 1}

\* ProductScanView._build_product_payload: the list, first() and count()
\* are each a query
_build_product_payload(product) ==
    LET rows == {r \in prices : r.product = product}
    IN {[product |-> product, prices |-> q,
         codes |-> {c.code : c \in {c \in codes : c.product = product}},
         stores_available |-> Cardinality(rows),
         best |-> BestFields(best_option)] :
           q \in order_by_price(rows),
           best_option \in IF rows = {} THEN {None}
                           ELSE {Some(o[1]) : o \in order_by_price(rows)}}

\* ProductPrice.objects.update_or_create(product, store, defaults={'price'})
update_or_create(rows, product, store, price) ==
    LET found == {r \in rows : r.product = product /\ r.store = store}
    IN IF found # {}
       THEN (rows \ found) \cup {[r EXCEPT !.price = price] : r \in found}
       ELSE rows \cup {[id |-> NextId(rows), product |-> product,
                        store |-> store, price |-> price]}

BstIdle == [pc |-> "idle", product |-> None, list |-> None, cmp |-> None,
            scan |-> None]

\* The stores that price the product here
BstStores == {1, 2}

\* The store and price a scan can carry: both or neither
BstPairs ==
    {[store_id |-> None, price |-> None]}
        \cup {[store_id |-> Some(s), price |-> Some(a)] :
                s \in BstStores, a \in CmpPrices}

\* A scan of a stored code up to its price write; what was read before the
\* write is dropped.
BstScanPrice ==
    /\ bst.pc = "idle"
    /\ \E code_row \in codes, pair \in BstPairs :
         /\ prices' = IF pair.store_id # None /\ pair.price # None
                      THEN update_or_create(prices, code_row.product,
                                            Val(pair.store_id), Val(pair.price))
                      ELSE prices
         /\ bst' = IF prices' = prices
                   THEN [bst EXCEPT !.pc = "payload",
                                    !.product = Some(code_row.product),
                                    !.scan = None]
                   ELSE [BstIdle EXCEPT !.pc = "payload",
                                        !.product = Some(code_row.product)]
    /\ UNCHANGED <<products, codes, th, adm, started, ean, fs, cmp, ofr, dsc, adr>>

\* The price write of another scan
BstOtherPrice ==
    /\ \E code_row \in codes, s \in BstStores, a \in CmpPrices :
         prices' = update_or_create(prices, code_row.product, s, a)
    /\ prices' # prices
    /\ bst' = [BstIdle EXCEPT !.pc = bst.pc, !.product = bst.product]
    /\ UNCHANGED <<products, codes, th, adm, started, ean, fs, cmp, ofr, dsc, adr>>

\* The payload of the scan's answer
BstScanRespond ==
    /\ bst.pc = "payload"
    /\ \E payload \in _build_product_payload(Val(bst.product)) :
         bst' = [bst EXCEPT !.pc = "idle", !.product = None,
                            !.scan = Some(payload)]
    /\ UNCHANGED <<db, th, adm, started, ean, fs, cmp, ofr, dsc, adr>>

\* GET products
BstList ==
    /\ \E category_id \in {None, Some(<<"1">>)}, search \in {None, Some(<<"B">>)} :
       \E payloads \in ProductList(category_id, search) :
         bst' = [bst EXCEPT !.list = Some(payloads)]
    /\ UNCHANGED <<db, th, adm, started, ean, fs, cmp, ofr, dsc, adr>>

\* GET compare-prices
BstCompare ==
    /\ \E product_id \in {Some(<<"1">>), Some(<<"0", "2">>), Some(<<"9">>)} :
       \E resp \in compare_prices(product_id, None) :
         bst' = [bst EXCEPT !.cmp = Some(resp)]
    /\ UNCHANGED <<db, th, adm, started, ean, fs, cmp, ofr, dsc, adr>>

\* Product 1 with any prices at the two stores and a code in storage,
\* product 2 with no price.
BstInit ==
    /\ products = {[id |-> 1, category |-> 1, name |-> <<"A", "b">>,
                    brand |-> "", description |-> ""],
                   [id |-> 2, category |-> 2, name |-> <<"a">>,
                    brand |-> "", description |-> ""]}
    /\ \E t \in PriceTables :
         prices = {[id |-> s, product |-> 1, store |-> s, price |-> Val(t.of[s])] :
                      s \in {s \in BstStores : t.of[s] # None}}
    /\ codes = {[id |-> 1, code |-> "c1", code_type |-> BARCODE, product |-> 1]}
    /\ th = [t \in Threads |-> Idle]
    /\ adm = AdminIdle
    /\ started = 0
    /\ bst = BstIdle
    /\ ean = None /\ fs = None /\ cmp = None /\ ofr = None /\ dsc = None /\ adr = None

BstNext ==
    BstScanPrice \/ BstOtherPrice \/ BstScanRespond \/ BstList \/ BstCompare

BstSpec == BstInit /\ [][BstNext]_vars

\* The least price among the product's rows as a text, none without rows
BestOf(product) ==
    LET amounts == {r.price : r \in {r \in prices : r.product = product}}
    IN IF amounts = {} THEN None
       ELSE Some(DecimalStr(CHOOSE a \in amounts : \A b \in amounts : a <= b))

\* C29: the best price the product list, the answer of a scan (read after
\* its price write) and compare_prices report for a product is the least
\* price among the product's rows as they are, and null (no best option)
\* when it has none; best_option, where reported, carries that price.
C29_SameBestPrice ==
    /\ bst.list # None =>
         \A e \in Val(bst.list) :
             /\ e.best.best_price = BestOf(e.product)
             /\ e.best.best_option = None <=> BestOf(e.product) = None
             /\ e.best.best_option # None =>
                  Some(Val(e.best.best_option).price) = BestOf(e.product)
    /\ bst.scan # None =>
         LET e == Val(bst.scan)
         IN /\ e.best.best_price = BestOf(e.product)
            /\ e.best.best_option = None <=> BestOf(e.product) = None
            /\ e.best.best_option # None =>
                 Some(Val(e.best.best_option).price) = BestOf(e.product)
    /\ bst.cmp # None /\ Val(bst.cmp).body # None =>
         LET body == Val(Val(bst.cmp).body)
         IN /\ body.best_option = None <=> BestOf(body.product) = None
            /\ body.best_option # None =>
                 Some(Val(body.best_option).price) = BestOf(body.product)

\* After a scan priced product 1 at 1.05 under the 1.80 of another store,
\* the three endpoints were read: each reports 1.05, and the list reports no
\* best price for product 2.
C29_Witness ==
    /\ bst.list # None /\ bst.scan # None /\ bst.cmp # None
    /\ \E r1, r2 \in prices :
         r1.product = 1 /\ r2.product = 1 /\ r1.price = 105 /\ r2.price = 180
         /\ r1.id > r2.id
    /\ Val(bst.scan).best.best_price = Some(<<1, 5>>)
    /\ Val(bst.cmp).body # None
    /\ Val(Val(bst.cmp).body).product = 1
    /\ Val(Val(bst.cmp).body).best_option # None
    /\ \E e \in Val(bst.list) : e.product = 1 /\ e.best.best_price = Some(<<1, 5>>)
    /\ \E e \in Val(bst.list) : e.product = 2 /\ e.best.best_price = None

(***************************************************************************)
(* The addresses of a user: AddressListCreateView.post and                 *)
(* AddressDetailView.patch / delete, statement by statement.  A user's     *)
(* requests follow one another; the requests of different users            *)
(* interleave.  The rows are kept in the order of updated_at, the oldest  *)
(* first; only the fields the default logic reads are kept.                *)
(***************************************************************************)
HTTP_204_NO_CONTENT == 204

MaxAddresses == 2

Users == {"u1", "u2"}
AddressIds == 1..(MaxAddresses + 1)

\* request.user.addresses
UserRows(u) == SelectSeq(adr.rows, LAMBDA r : r.user = u)

\* Address.Meta.constraints: one default address per user
AddressConstraintViolated(rows, new) ==
    /\ new.is_default
    /\ \E i \in 1..Len(rows) :
         rows[i].id # new.id /\ rows[i].user = new.user /\ rows[i].is_default

\* Address.objects.filter(id=address_id, user=request.user).first()
_get_address(u, address_id) ==
    LET found == SelectSeq(adr.rows, LAMBDA r : r.id = address_id /\ r.user = u)
    IN IF found = <<>> THEN None ELSE Some(found[1])

AdrReqIdle ==
    [pc |-> "idle", op |-> "", address |-> None, is_default |-> FALSE,
     was_default |-> FALSE, replacement |-> None, resp |-> None]

Req(u) == adr.req[u]
\* The response; the locals of the request are gone with it
Answer(u, status, detail) ==
    [AdrReqIdle EXCEPT !.pc = "done", !.op = Req(u).op,
                       !.resp = Some([status |-> status, detail |-> detail])]

\* post: the serializer, is_default and the exists() query
AdrPost(u) ==
    /\ Req(u).pc \in {"idle", "done"}
    /\ adr.last_id < MaxAddresses
    /\ \E sent \in {None, Some(TRUE), Some(FALSE)} :
         LET is_default == IF UserRows(u) = <<>> THEN TRUE ELSE Get(sent, FALSE)
         IN adr' = [adr EXCEPT !.req[u] = [AdrReqIdle EXCEPT
                                 !.op = "post", !.is_default = is_default,
                                 !.pc = IF is_default THEN "post_update"
                                        ELSE "post_save"]]
    /\ UNCHANGED <<db, th, adm, started, ean, fs, cmp, ofr, dsc, bst>>

\* request.user.addresses.update(is_default=False): a QuerySet.update, which
\* leaves updated_at as it is
AdrPostUpdate(u) ==
    /\ Req(u).pc = "post_update"
    /\ adr' = [adr EXCEPT
                 !.rows = [i \in 1..Len(adr.rows) |->
                             IF adr.rows[i].user = u
                             THEN [adr.rows[i] EXCEPT !.is_default = FALSE]
                             ELSE adr.rows[i]],
                 !.req[u].pc = "post_save"]
    /\ UNCHANGED <<db, th, adm, started, ean, fs, cmp, ofr, dsc, bst>>

\* serializer.save(user=request.user, is_default=is_default)
AdrPostSave(u) ==
    /\ Req(u).pc = "post_save"
    /\ LET row == [id |-> adr.last_id + 1, user |-> u,
                   is_default |-> Req(u).is_default]
       IN adr' = IF AddressConstraintViolated(adr.rows, row)
                 THEN [adr EXCEPT !.req[u] =
                         Answer(u, HTTP_500_INTERNAL_SERVER_ERROR, "IntegrityError")]
                 ELSE [adr EXCEPT !.rows = Append(adr.rows, row),
                                  !.last_id = row.id,
                                  !.req[u] = Answer(u, HTTP_201_CREATED, "")]
    /\ UNCHANGED <<db, th, adm, started, ean, fs, cmp, ofr, dsc, bst>>

\* patch: the lookup, the serializer and is_default
AdrPatch(u) ==
    /\ Req(u).pc \in {"idle", "done"}
    /\ \E address_id \in AddressIds, sent \in {None, Some(TRUE), Some(FALSE)} :
         LET address == _get_address(u, address_id)
             is_default == Get(sent, Val(address).is_default)
         IN adr' = [adr EXCEPT !.req[u] =
              IF address = None
              THEN [Answer(u, HTTP_404_NOT_FOUND, "AddressNotFound")
                      EXCEPT !.op = "patch"]
              ELSE [AdrReqIdle EXCEPT
                      !.op = "patch", !.address = address,
                      !.is_default = is_default,
                      !.pc = IF is_default THEN "patch_update" ELSE "patch_save"]]
    /\ UNCHANGED <<db, th, adm, started, ean, fs, cmp, ofr, dsc, bst>>

\* request.user.addresses.exclude(id=address.id).update(is_default=False)
AdrPatchUpdate(u) ==
    /\ Req(u).pc = "patch_update"
    /\ adr' = [adr EXCEPT
                 !.rows = [i \in 1..Len(adr.rows) |->
                             IF /\ adr.rows[i].user = u
                                /\ adr.rows[i].id # Val(Req(u).address).id
                             THEN [adr.rows[i] EXCEPT !.is_default = FALSE]
                             ELSE adr.rows[i]],
                 !.req[u].pc = "patch_save"]
    /\ UNCHANGED <<db, th, adm, started, ean, fs, cmp, ofr, dsc, bst>>

\* updated_address = serializer.save(): the row is rewritten, updated_at set
AdrPatchSave(u) ==
    /\ Req(u).pc = "patch_save"
    /\ LET row == [Val(Req(u).address) EXCEPT !.is_default = Req(u).is_default]
       IN adr' = IF AddressConstraintViolated(adr.rows, row)
                 THEN [adr EXCEPT !.req[u] =
                         Answer(u, HTTP_500_INTERNAL_SERVER_ERROR, "IntegrityError")]
                 ELSE [adr EXCEPT !.rows = Append(SelectSeq(adr.rows, LAMBDA r : r.id # row.id), row),
                                  !.req[u].address = Some(row),
                                  !.req[u].pc = "patch_check"]
    /\ UNCHANGED <<db, th, adm, started, ean, fs, cmp, ofr, dsc, bst>>

\* A patch that answers without looking for a default.
AdrPatchCheck_NoFix(u) ==
    /\ Req(u).pc = "patch_check"
    /\ adr' = [adr EXCEPT !.req[u] = Answer(u, HTTP_200_OK, "")]
    /\ UNCHANGED <<db, th, adm, started, ean, fs, cmp, ofr, dsc, bst>>

\* if not request.user.addresses.filter(is_default=True).exists()
AdrPatchCheck(u) ==
    /\ Req(u).pc = "patch_check"
    /\ adr' = [adr EXCEPT !.req[u] =
                IF SelectSeq(UserRows(u), LAMBDA r : r.is_default) # <<>>
                THEN Answer(u, HTTP_200_OK, "")
                ELSE [Req(u) EXCEPT !.pc = "patch_fix"]]
    /\ UNCHANGED <<db, th, adm, started, ean, fs, cmp, ofr, dsc, bst>>

\* updated_address.is_default = True; save(update_fields=['is_default'])
AdrPatchFix(u) ==
    /\ Req(u).pc = "patch_fix"
    /\ LET row == [Val(Req(u).address) EXCEPT !.is_default = TRUE]
       IN adr' = IF AddressConstraintViolated(adr.rows, row)
                 THEN [adr EXCEPT !.req[u] =
                         Answer(u, HTTP_500_INTERNAL_SERVER_ERROR, "IntegrityError")]
                 ELSE [adr EXCEPT
                         !.rows = [i \in 1..Len(adr.rows) |->
                                     IF adr.rows[i].id = row.id THEN row
                                     ELSE adr.rows[i]],
                         !.req[u] = Answer(u, HTTP_200_OK, "")]
    /\ UNCHANGED <<db, th, adm, started, ean, fs, cmp, ofr, dsc, bst>>

\* delete: the lookup and was_default
AdrDelete(u) ==
    /\ Req(u).pc \in {"idle", "done"}
    /\ \E address_id \in AddressIds :
         LET address == _get_address(u, address_id)
         IN adr' = [adr EXCEPT !.req[u] =
              IF address = None
              THEN [Answer(u, HTTP_404_NOT_FOUND, "AddressNotFound")
                      EXCEPT !.op = "delete"]
              ELSE [AdrReqIdle EXCEPT
                      !.op = "delete", !.address = address,
                      !.was_default = Val(address).is_default,
                      !.pc = "delete_row"]]
    /\ UNCHANGED <<db, th, adm, started, ean, fs, cmp, ofr, dsc, bst>>

\* address.delete()
AdrDeleteRow(u) ==
    /\ Req(u).pc = "delete_row"
    /\ adr' = [adr EXCEPT
                 !.rows = SelectSeq(adr.rows,
                                    LAMBDA r : r.id # Val(Req(u).address).id),
                 !.req[u] = IF Req(u).was_default
                            THEN [Req(u) EXCEPT !.pc = "delete_replace"]
                            ELSE Answer(u, HTTP_204_NO_CONTENT, "")]
    /\ UNCHANGED <<db, th, adm, started, ean, fs, cmp, ofr, dsc, bst>>

\* replacement = request.user.addresses.order_by('-updated_at').first()
AdrDeleteReplace(u) ==
    /\ Req(u).pc = "delete_replace"
    /\ LET rows == UserRows(u)
           replacement == IF rows = <<>> THEN None ELSE Some(rows[Len(rows)])
       IN adr' = [adr EXCEPT !.req[u] =
                   IF replacement # None /\ ~Val(replacement).is_default
                   THEN [Req(u) EXCEPT !.pc = "delete_fix",
                                       !.replacement = replacement]
                   ELSE Answer(u, HTTP_204_NO_CONTENT, "")]
    /\ UNCHANGED <<db, th, adm, started, ean, fs, cmp, ofr, dsc, bst>>

\* replacement.is_default = True; save(update_fields=['is_default'])
AdrDeleteFix(u) ==
    /\ Req(u).pc = "delete_fix"
    /\ LET row == [Val(Req(u).replacement) EXCEPT !.is_default = TRUE]
       IN adr' = IF AddressConstraintViolated(adr.rows, row)
                 THEN [adr EXCEPT !.req[u] =
                         Answer(u, HTTP_500_INTERNAL_SERVER_ERROR, "IntegrityError")]
                 ELSE [adr EXCEPT
                         !.rows = [i \in 1..Len(adr.rows) |->
                                     IF adr.rows[i].id = row.id THEN row
                                     ELSE adr.rows[i]],
                         !.req[u] = Answer(u, HTTP_204_NO_CONTENT, "")]
    /\ UNCHANGED <<db, th, adm, started, ean, fs, cmp, ofr, dsc, bst>>

AdrInit ==
    /\ ScanInit
    /\ ean = None /\ fs = None /\ cmp = None /\ ofr = None /\ dsc = None
    /\ bst = None
    /\ adr = [rows |-> <<>>, last_id |-> 0, req |-> [u \in Users |-> AdrReqIdle]]

AdrNext ==
    \E u \in Users :
        \/ AdrPost(u) \/ AdrPostUpdate(u) \/ AdrPostSave(u)
        \/ AdrPatch(u) \/ AdrPatchUpdate(u) \/ AdrPatchSave(u)
        \/ AdrPatchCheck(u) \/ AdrPatchFix(u)
        \/ AdrDelete(u) \/ AdrDeleteRow(u) \/ AdrDeleteReplace(u)
        \/ AdrDeleteFix(u)

AdrSpec == AdrInit /\ [][AdrNext]_vars

\* No request of the user is in progress.
Elems(rows) == {rows[i] : i \in 1..Len(rows)}
Settled(u) == Req(u).pc \in {"idle", "done"}
Defaults(u) == {r \in Elems(UserRows(u)) : r.is_default}
\* The rows of the other users, in their order
RowsOfOthers(rows, u) == SelectSeq(rows, LAMBDA r : r.user # u)

\* Between a user's requests, the user has one default address if they have
\* an address, and no request was answered with an IntegrityError.
C30_OneDefault ==
    \A u \in Users :
        /\ Settled(u) =>
             Cardinality(Defaults(u)) = IF UserRows(u) = <<>> THEN 0 ELSE 1
        /\ Req(u).resp # None =>
             Val(Req(u).resp).status # HTTP_500_INTERNAL_SERVER_ERROR

\* A request of a user that starts a patch or a delete either goes on with
\* an address of that user or is answered 404 having written nothing, the
\* latter whenever the user has no address; no step of a user's request
\* changes the rows of another user.
C30_OwnRowsOnly ==
    \A u \in Users :
        adr'.req[u] # adr.req[u] =>
            /\ RowsOfOthers(adr'.rows, u) = RowsOfOthers(adr.rows, u)
            /\ Settled(u) /\ adr'.req[u].op \in {"patch", "delete"} =>
                 \/ /\ adr'.req[u].address # None
                    /\ Val(adr'.req[u].address).user = u
                    /\ Val(adr'.req[u].address) \in Elems(adr.rows)
                 \/ /\ adr'.req[u].pc = "done"
                    /\ Val(adr'.req[u].resp).status = HTTP_404_NOT_FOUND
                    /\ adr'.rows = adr.rows
            /\ Settled(u) /\ adr'.req[u].op \in {"patch", "delete"}
                 /\ UserRows(u) = <<>> =>
                 Val(adr'.req[u].resp).status = HTTP_404_NOT_FOUND

\* C30: whenever none of a user's address requests is in progress, the user
\* has exactly one default address if they have any address and none
\* otherwise; a patch or delete goes on only with an address of the
\* requesting user, so that one addressed to another user's address is
\* answered 404 and changes no row, and no request changes the rows of
\* another user.
C30_DefaultAddress == []C30_OneDefault /\ [][C30_OwnRowsOnly]_vars

\* u2 holds the only address and u1, who has none, had a patch or a delete
\* refused; u2 deleted its default address and the one left took over.
C30_Witness ==
    /\ Req("u1").op \in {"patch", "delete"} /\ Req("u1").pc = "done"
    /\ Val(Req("u1").resp).status = HTTP_404_NOT_FOUND
    /\ UserRows("u1") = <<>>
    /\ Req("u2").op = "delete" /\ Req("u2").pc = "done"
    /\ adr.last_id = 2
    /\ UserRows("u2") = <<[id |-> 2, user |-> "u2", is_default |-> TRUE]>>

=============================================================================
